---- MODULE Spec2Model ----
(***************************************************************************)
(* A model of rfs_tester's sandbox engine (src/src/rfs/fs_tester.rs):      *)
(* FsTester::new with its validation, the concurrent Builder and Cloner,   *)
(* the rollback after a failed build, perform_fs_test and Drop, over a     *)
(* small file system.                                                      *)
(*                                                                         *)
(* A path is a sequence of components.  A path whose first component is    *)
(* "/" is absolute, any other path is relative to the working directory    *)
(* Cwd; "." is the component that names the directory itself.  The file    *)
(* system is keyed by canonical paths: absolute, with neither "/" nor "."  *)
(* in them.                                                                *)
(***************************************************************************)
EXTENDS Integers, Sequences, FiniteSets, TLC

\* ------------------------------------------------------------------------
\* Bounds of the model
\* ------------------------------------------------------------------------

\* the random u64 of get_random_code is drawn from 1..MaxCode
MaxCode == 2

\* a configured directory has at most MaxContent entries
MaxContent == 2

\* the longest path the operating system takes has MaxPath components: a
\* longer one is refused with ENAMETOOLONG
MaxPath == 8

\* ------------------------------------------------------------------------
\* Program constants
\* ------------------------------------------------------------------------

LINKS_ALLOWED_VAR_NAME == "LINKS_ALLOWED"

SEMAPHORE_LIMIT == 100

\* ------------------------------------------------------------------------
\* Paths
\* ------------------------------------------------------------------------

\* the working directory of the process, as a canonical path
Cwd == <<"w">>

\* the None of an Option<String> that holds a path
NoPath == <<"<none>">>

\* the value that stands for an environment variable that is not set
Unset == "<unset>"

SeqsUpTo(S, n) == UNION {[1..k -> S] : k \in 0..n}

IsPrefix(p, q) == Len(p) <= Len(q) /\ SubSeq(q, 1, Len(p)) = p

Prefixes(p) == {SubSeq(p, 1, k) : k \in 0..Len(p)}

RECURSIVE DropDots(_)
DropDots(p) ==
    IF p = <<>> THEN <<>>
    ELSE IF Head(p) = "." THEN DropDots(Tail(p))
    ELSE <<Head(p)>> \o DropDots(Tail(p))

\* the absolute form of a path, as the kernel resolves it
Abs(p) ==
    IF p # <<>> /\ Head(p) = "/" THEN DropDots(Tail(p)) ELSE Cwd \o DropDots(p)

\* PathBuf::from of a string: "" is the empty path, "/" the root
PathBufFrom(s) == s

\* PathBuf::join with a relative path
Join(dir, rel) == dir \o rel

\* format!("{}_{}", name, uniq_code): the code goes to the end of the string,
\* which is the end of the last component
WithCode(name, code) ==
    IF name = <<>> THEN <<"_" \o ToString(code)>>
    ELSE [name EXCEPT ![Len(name)] = @ \o "_" \o ToString(code)]

\* ------------------------------------------------------------------------
\* The file system: directories, files (path -> inode), the bytes of each
\* inode, and the entries that are neither a regular file nor a directory
\* (a socket stands for them where one is opened).  An inode is named by
\* the path that first created it.
\* ------------------------------------------------------------------------

FsExists(fs, c) == c \in fs.dirs \/ c \in DOMAIN fs.files \/ c \in fs.others

FsIsDir(fs, c) == c \in fs.dirs

FsIsFile(fs, c) == c \in DOMAIN fs.files

\* std::fs::canonicalize fails for a path that does not exist
CanonicalizeOk(fs, p) == FsExists(fs, Abs(p))

\* a path the system calls take
Fits(c) == Len(c) <= MaxPath

\* fs::create_dir_all: creates the missing ancestors one after the other and
\* fails at the first ancestor that is there and is not a directory
FsCreateDirAll(fs, p) ==
    LET c == Abs(p)
        bad == {q \in Prefixes(c) : FsIsFile(fs, q) \/ q \in fs.others}
        made == {q \in Prefixes(c) : \A r \in bad : ~IsPrefix(r, q)}
    IN IF Fits(c)
       THEN [ok |-> bad = {}, fs |-> [fs EXCEPT !.dirs = @ \cup made]]
       ELSE [ok |-> FALSE, fs |-> fs]

\* File::create: the parent has to be a directory and the path must not be
\* one; an existing file is truncated and keeps its inode
FsCreateFile(fs, p) ==
    LET c == Abs(p)
        parentOk == c # <<>> /\ FsIsDir(fs, SubSeq(c, 1, Len(c) - 1))
        ok == parentOk /\ ~FsIsDir(fs, c) /\ c \notin fs.others /\ Fits(c)
        ino == IF FsIsFile(fs, c) THEN fs.files[c] ELSE c
    IN [ok |-> ok,
        fs |-> IF ok
               THEN [fs EXCEPT !.files = (c :> ino) @@ @,
                               !.data = (ino :> <<>>) @@ @]
               ELSE fs]

\* File::open for reading
FsOpenOk(fs, p) == FsIsFile(fs, Abs(p))

FsRead(fs, p) == fs.data[fs.files[Abs(p)]]

\* write_all / tokio::io::copy on a destination that File::create has just
\* opened: the bytes go to the start of the file, over what is there, and
\* what is there beyond them stays
FsWrite(fs, p, bytes) ==
    LET c == Abs(p)
    IN IF FsIsFile(fs, c)
       THEN [fs EXCEPT !.data[fs.files[c]] = bytes \o SubSeq(@, Len(bytes) + 1, Len(@))]
       ELSE fs

\* fs::hard_link(target, link): the target is an existing file, the link does
\* not exist and its parent is a directory
FsHardLink(fs, target, link) ==
    LET t == Abs(target)
        l == Abs(link)
        ok == /\ FsIsFile(fs, t)
              /\ ~FsExists(fs, l)
              /\ l # <<>>
              /\ Fits(l)
              /\ FsIsDir(fs, SubSeq(l, 1, Len(l) - 1))
    IN [ok |-> ok,
        fs |-> IF ok THEN [fs EXCEPT !.files = (l :> fs.files[t]) @@ @] ELSE fs]

\* the names of the immediate children of a directory
FsChildren(fs, c) ==
    {q \in fs.dirs \cup DOMAIN fs.files \cup fs.others :
       Len(q) = Len(c) + 1 /\ IsPrefix(c, q)}

\* std::fs::remove_dir: removes a directory that is empty, and fails otherwise
FsRemoveDir(fs, p) ==
    LET c == Abs(p)
        ok == FsIsDir(fs, c) /\ FsChildren(fs, c) = {}
    IN [ok |-> ok, fs |-> IF ok THEN [fs EXCEPT !.dirs = @ \ {c}] ELSE fs]

\* std::fs::remove_dir_all: fails unless the path is a directory, and removes
\* it with everything below it
FsRemoveDirAll(fs, p) ==
    LET c == Abs(p)
        ok == FsIsDir(fs, c)
        keep == {f \in DOMAIN fs.files : ~IsPrefix(c, f)}
    IN [ok |-> ok,
        fs |-> IF ok
               THEN [dirs |-> {d \in fs.dirs : ~IsPrefix(c, d)},
                     files |-> [f \in keep |-> fs.files[f]],
                     data |-> [i \in {fs.files[f] : f \in keep} |-> fs.data[i]],
                     others |-> {o \in fs.others : ~IsPrefix(c, o)}]
               ELSE fs]


\* ------------------------------------------------------------------------
\* The configuration model (src/src/rfs/config): an entry is a record of
\* one shape for all four kinds; the fields a kind does not have are empty.
\* A name is a relative path, of one component unless it has a '/' in it.
\* ------------------------------------------------------------------------

NoContent == [tag |-> "none", text |-> "", bytes |-> <<>>, path |-> <<>>]

InlineBytes(data) == [NoContent EXCEPT !.tag = "inline_bytes", !.bytes = data]

InlineText(text) == [NoContent EXCEPT !.tag = "inline_text", !.text = text]

OriginalFile(path) == [NoContent EXCEPT !.tag = "original_file", !.path = path]

Empty == [NoContent EXCEPT !.tag = "empty"]

DirectoryConf(name, content) ==
    [kind |-> "directory", name |-> name, content |-> content,
     fc |-> NoContent, ref |-> <<>>]

CloneDirectoryConf(name, source) ==
    [kind |-> "clone_directory", name |-> name, content |-> <<>>,
     fc |-> NoContent, ref |-> source]

FileConf(name, fc) ==
    [kind |-> "file", name |-> name, content |-> <<>>, fc |-> fc, ref |-> <<>>]

LinkConf(name, target) ==
    [kind |-> "link", name |-> name, content |-> <<>>,
     fc |-> NoContent, ref |-> target]

\* as_bytes with a line feed after the text
AsBytesAndNewline(text) ==
    CASE text = "hi" -> <<104, 105, 10>>
      [] text = "" -> <<10>>
      [] OTHER -> <<63, 10>>

\* str::as_bytes of the texts of the model (UTF-8)
AsBytes(text) ==
    CASE text = "hi" -> <<104, 105>>
      [] text = "" -> <<>>
      [] OTHER -> <<63>>

\* the entry of a configuration at an index path (<<1>> is the root entry)
RECURSIVE EntryAt(_, _)
EntryAt(content, t) ==
    IF Len(t) = 1 THEN content[t[1]]
    ELSE EntryAt(content[t[1]].content, Tail(t))

\* ------------------------------------------------------------------------
\* The file system before any build, and the inputs of the model
\* ------------------------------------------------------------------------

CargoToml == <<"Cargo.toml">>

InitFs ==
    [dirs |-> {<<>>, Cwd, Cwd \o <<"sp">>, Cwd \o <<"src">>,
               Cwd \o <<"src", "rfs">>},
     files |-> (Cwd \o CargoToml :> Cwd \o CargoToml)
               @@ (Cwd \o <<"src", "lib.rs">> :> Cwd \o <<"src", "lib.rs">>)
               @@ (Cwd \o <<"src", "rfs", "mod.rs">> :> Cwd \o <<"src", "rfs", "mod.rs">>),
     data |-> (Cwd \o CargoToml :> <<1>>)
              @@ (Cwd \o <<"src", "lib.rs">> :> <<2>>)
              @@ (Cwd \o <<"src", "rfs", "mod.rs">> :> <<3, 3>>),
     others |-> {}]

\* entries without content of their own
Leaves ==
    {FileConf(<<"a">>, InlineText("hi")),
     FileConf(<<"b">>, OriginalFile(<<"nofile">>)),
     LinkConf(<<"l">>, CargoToml)}

\* entries of the root directory: a leaf, or a directory of at most one leaf
RootEntries ==
    Leaves \cup {DirectoryConf(<<"d">>, c) : c \in SeqsUpTo(Leaves, 1)}

\* the root directories of at most MaxContent entries
Roots == {DirectoryConf(<<"r">>, c) : c \in SeqsUpTo(RootEntries, MaxContent)}

\* root entries of the other shapes: clones at the root and below it, the
\* other kinds of content, a name below a file
Samples ==
    {CloneDirectoryConf(<<"r">>, s) : s \in {<<"src">>, <<".", "src">>, <<"nosrc">>}}
    \cup {DirectoryConf(<<"r">>, c) :
            c \in {<<CloneDirectoryConf(<<"k">>, <<"src">>)>>,
                   <<CloneDirectoryConf(<<"k">>, <<"src">>),
                     FileConf(<<"b">>, OriginalFile(<<"nofile">>))>>,
                   <<FileConf(<<"b">>, OriginalFile(<<"nofile">>)),
                     CloneDirectoryConf(<<"k">>, <<"src">>)>>}}
    \cup {DirectoryConf(<<"r">>, <<FileConf(<<"a">>, fc)>>) :
            fc \in {Empty, InlineBytes(<<116, 101>>), OriginalFile(CargoToml)}}
    \cup {DirectoryConf(<<"r">>, <<l>>) : l \in Leaves}
    \cup {DirectoryConf(<<"r">>, <<FileConf(<<"a">>, InlineText("hi")),
                                   FileConf(<<"a">>, InlineBytes(<<116, 101, 120>>))>>)}
    \cup {CloneDirectoryConf(<<"Cargo.toml", "r">>, <<"src">>),
          DirectoryConf(<<"Cargo.toml", "r">>, <<FileConf(<<"a">>, InlineText("hi"))>>)}

\* configurations that do not start from a single directory
BadConfigurations ==
    {<<>>,
     <<DirectoryConf(<<"r">>, <<>>), DirectoryConf(<<"q">>, <<>>)>>,
     <<FileConf(<<"a">>, Empty)>>,
     <<LinkConf(<<"l">>, CargoToml)>>}

\* a configuration text: its first character, its first character that is
\* not whitespace, and what the parser it is given to makes of it
Text(first, ok, conf) == [first |-> first, after |-> first, ok |-> ok, conf |-> conf]

\* a text with a line feed in front of it
Padded(text) == [text EXCEPT !.first = "\n"]

\* the texts that are tried with every start point and every environment
SampleTexts ==
    {Text("-", TRUE, c) : c \in {<<r>> : r \in Samples} \cup BadConfigurations}
    \cup {Text("", FALSE, <<>>), Text("[", FALSE, <<>>), Text("-", FALSE, <<>>),
          Text("[", TRUE, <<DirectoryConf(<<"r">>, <<>>)>>)}

ConfigTexts == {Text("-", TRUE, <<r>>) : r \in Roots} \cup SampleTexts

StartPoints == {<<>>, <<".">>, <<"/">>, <<"sp">>, <<"nodir">>, CargoToml}

EnvValues == {Unset, "Y", "N", "true", "false", "0", ""}

\* ------------------------------------------------------------------------
\* State
\* ------------------------------------------------------------------------

\* the testers (calls of FsTester::new and what follows) of the model
Builds == {1, 2}

VARIABLES
    env,            \* the value of LINKS_ALLOWED in the process environment
    fs,             \* the file system
    input,          \* per tester: config_str and start_point given to new
    pc,             \* per tester: where the calling thread is
    links_allowed,  \* per tester: Permissions.links_allowed
    unit,           \* per tester: the spawned units of work, by index path
    copier,         \* per tester: the spawned file copies of the Cloner
    permits,        \* per tester: the permits left in the semaphore
    buildRes,       \* per tester: the result of block_on
    newRet,         \* per tester: what new returned
    tester,         \* per tester: the FsTester value
    rmLog,          \* per tester: the calls of remove_dir_all, in order
    bodyLog,        \* per tester: the calls of the test body, in order
    conv,           \* an FsTesterError in the hands of the caller, and what
                    \* its methods have returned
    stderr          \* per tester: the lines Drop has written to stderr

vars == <<env, fs, input, pc, links_allowed, unit, copier, permits, buildRes, newRet,
          tester, rmLog, bodyLog, conv, stderr>>

\* Result<String>: Ok(val) or an FsTesterError with its code and sandbox_dir
Ok(val) == [ok |-> TRUE, code |-> "", sandbox_dir |-> NoPath, val |-> val]

Err(code) == [ok |-> FALSE, code |-> code, sandbox_dir |-> NoPath, val |-> <<>>]

Pending == [ok |-> FALSE, code |-> "pending", sandbox_dir |-> NoPath, val |-> <<>>]

\* ErrorCode
ErrorCodes ==
    {"EmptyConfig", "ShouldStartFromDirectory", "LinksNotAllowed", "YamlSyntax",
     "JsonSyntax", "WalkDir", "Io", "AcquireError", "JoinError"}

\* Category
Categories == {"ConfigFormat", "NotAllowedSettings", "Syntax", "Io", "Multitasking"}

\* std::io::ErrorKind, the kinds the model tells apart
IoErrorKinds == {"NotFound", "PermissionDenied", "AlreadyExists", "InvalidData", "Other"}

\* the kind of what is not an io::Error
NoKind == "<none>"

\* the values of sandbox_dir of the errors that are looked at
SandboxDirs == {NoPath, <<".", "r_1">>, <<"sp", "r_2">>}

\* FsTesterError: its code, the kind of the io::Error inside ErrorCode::Io,
\* and sandbox_dir
FsTesterErrors ==
    [code : {"Io"}, kind : IoErrorKinds, sandbox_dir : SandboxDirs]
    \cup [code : ErrorCodes \ {"Io"}, kind : {NoKind}, sandbox_dir : SandboxDirs]

\* an Option: None, and Some(x)
None == <<>>

Some(x) == <<x>>

\* the caller holds no error
NoError == [code |-> "", kind |-> NoKind, sandbox_dir |-> NoPath]

\* an error in the hands of the caller before any of its methods is called
Fresh(error) == [error |-> error, category |-> None, is |-> None, kind |-> None, io |-> None]

NoConv == Fresh(NoError)

NoTester == [by |-> "none", base_dir |-> <<>>, config |-> <<>>]

Level(t) == Len(t) - 1

\* the configuration entry a unit works on
ConfOf(b, t) == EntryAt(tester[b].config, t)

FirstPc(kind) ==
    CASE kind = "directory" -> "create_dir"
      [] kind = "clone_directory" -> "clone_create"
      [] kind = "file" -> "acquire"
      [] kind = "link" -> "link"

\* a unit that was spawned and has not run yet
NewUnit(conf, parent_path) ==
    [kind |-> conf.kind, pc |-> FirstPc(conf.kind), parent |-> parent_path,
     dst |-> <<>>, made |-> FALSE, join |-> 1, frames |-> <<>>, res |-> Pending]

\* the calls of new of the model: a sample text from any start point in any
\* environment, or any text from the current directory with LINKS_ALLOWED
\* unset and from sp with LINKS_ALLOWED "Y"
Inputs ==
    [config_str : SampleTexts, start_point : StartPoints, env : EnvValues]
    \cup [config_str : ConfigTexts, start_point : {<<>>}, env : {Unset}]
    \cup [config_str : ConfigTexts, start_point : {<<"sp">>}, env : {"Y"}]

NoInput == [config_str |-> Text("", FALSE, <<>>), start_point |-> <<>>, env |-> Unset]

\* no tester has done anything
InitTesters ==
    /\ links_allowed = [b \in Builds |-> FALSE]
    /\ unit = [b \in Builds |-> <<>>]
    /\ copier = [b \in Builds |-> <<>>]
    /\ permits = [b \in Builds |-> 0]
    /\ buildRes = [b \in Builds |-> Pending]
    /\ newRet = [b \in Builds |-> Pending]
    /\ tester = [b \in Builds |-> NoTester]
    /\ rmLog = [b \in Builds |-> <<>>]
    /\ bodyLog = [b \in Builds |-> <<>>]
    /\ stderr = [b \in Builds |-> <<>>]

InitCommon ==
    /\ fs = InitFs
    /\ InitTesters

\* one tester
Init ==
    /\ InitCommon
    /\ \E i \in Inputs :
         /\ input = [b \in Builds |-> IF b = 1 THEN i ELSE NoInput]
         /\ env = i.env
    /\ pc = [b \in Builds |-> IF b = 1 THEN "start" ELSE "idle"]
    /\ conv = NoConv

\* the texts of two testers that are built side by side
TwoTexts ==
    {Text("-", TRUE, <<r>>) :
       r \in {DirectoryConf(<<"r">>, <<FileConf(<<"a">>, InlineText("hi"))>>),
              DirectoryConf(<<"r">>, <<LinkConf(<<"l">>, CargoToml)>>),
              CloneDirectoryConf(<<"r">>, <<"src">>)}}

\* two testers of the same configuration from the same start point
InitTwo ==
    /\ InitCommon
    /\ \E i \in [config_str : TwoTexts, start_point : {<<>>, <<"sp">>}, env : {"Y", "N"}] :
         /\ input = [b \in Builds |-> i]
         /\ env = i.env
    /\ pc = [b \in Builds |-> "start"]
    /\ conv = NoConv

\* an FsTesterError of any code on its own, no tester at work
InitErrors ==
    /\ InitCommon
    /\ input = [b \in Builds |-> NoInput]
    /\ env = Unset
    /\ pc = [b \in Builds |-> "idle"]
    /\ \E error \in FsTesterErrors : conv = Fresh(error)

\* a CloneDirectory at the root whose source is the start point: the
\* destination is created inside the source
SelfClones ==
    {[config_str |-> Text("-", TRUE, <<CloneDirectoryConf(<<"r">>, d)>>),
      start_point |-> d, env |-> Unset] : d \in {<<"sp">>, <<"src", "rfs">>}}

\* one tester, of a clone of the start point or of a sample text
InitLive ==
    /\ InitCommon
    /\ \E i \in SelfClones
                \cup [config_str : SampleTexts, start_point : {<<>>}, env : {"Y"}] :
         /\ input = [b \in Builds |-> IF b = 1 THEN i ELSE NoInput]
         /\ env = i.env
    /\ pc = [b \in Builds |-> IF b = 1 THEN "start" ELSE "idle"]
    /\ conv = NoConv

\* ------------------------------------------------------------------------
\* FsTester, up to the start of the build
\* ------------------------------------------------------------------------

get_random_code == 1..MaxCode

\* gen_dir_path that puts the code at the end of every directory name
GenAlwaysCode(dir_path, name, level, uniq_code) ==
    Join(dir_path, WithCode(name, uniq_code))

gen_dir_path(dir_path, name, level, uniq_code) ==
    IF level = 0 THEN Join(dir_path, WithCode(name, uniq_code))
    ELSE Join(dir_path, name)

\* cmp_canonical_paths that finds any two paths equal
CmpAlwaysEqual(f, left, right) == TRUE

\* cmp_canonical_paths without the canonical forms
CmpStringsOnly(f, left, right) == left = right

\* cmp_canonical_paths of left with the directory that right is in
CmpDirOfRight(f, left, right) ==
    right # <<>> /\ Abs(left) = Abs(SubSeq(right, 1, Len(right) - 1))

cmp_canonical_paths(f, left, right) ==
    IF left = right THEN TRUE
    ELSE IF CanonicalizeOk(f, left)
         THEN IF CanonicalizeOk(f, right) THEN Abs(left) = Abs(right) ELSE FALSE
         ELSE FALSE

\* parse_config without its None arm: an empty text goes to the YAML parser
ParseEmptyAsYaml(config_str) ==
    IF config_str.first \in {"{", "["}
    THEN IF config_str.ok THEN Ok(config_str.conf) ELSE Err("JsonSyntax")
    ELSE IF config_str.ok THEN Ok(config_str.conf) ELSE Err("YamlSyntax")

\* the first character picks the parser; a text without one is empty_config
parse_config(config_str) ==
    IF config_str.first = "" THEN Err("EmptyConfig")
    ELSE IF config_str.first \in {"{", "["}
         THEN IF config_str.ok THEN Ok(config_str.conf) ELSE Err("JsonSyntax")
         ELSE IF config_str.ok THEN Ok(config_str.conf) ELSE Err("YamlSyntax")

\* a toggle that is on whatever the variable holds
LinksAlwaysAllowed(value) == TRUE

\* a toggle that is on for "Y" alone
LinksAllowedForY(value) == value = "Y"

\* env::var(LINKS_ALLOWED_VAR_NAME).unwrap_or_else(|_| "N".to_string()) != "N"
LinksAllowed(value) == (IF value = Unset THEN "N" ELSE value) # "N"

\* a match on root_config_entry that takes every kind of entry
IsAnyKind(entry) == TRUE

\* the match on root_config_entry: ConfigEntry::Directory or CloneDirectory
IsRootKind(entry) == entry.kind \in {"directory", "clone_directory"}

\* a start point that passes for a directory whatever is on disk
IsDirAlways(f, start_point) == TRUE

\* Path::new(start_point).is_dir()
IsDirStart(f, start_point) == FsIsDir(f, Abs(start_point))

\* new, from its first line to the point where it either returns an error or
\* hands the root entry to block_on
NewOutcome(b) ==
    LET config == parse_config(input[b].config_str)
        start_point == input[b].start_point
        base_dir == IF Len(start_point) = 0 THEN PathBufFrom(<<".">>)
                    ELSE PathBufFrom(start_point)
    IN IF ~config.ok THEN [ret |-> config, root |-> <<>>, base_dir |-> <<>>]
       ELSE IF Len(start_point) # 0 /\ ~IsDirStart(fs, start_point)
            THEN [ret |-> Err("ShouldStartFromDirectory"), root |-> <<>>,
                  base_dir |-> <<>>]
       ELSE IF Len(config.val) # 1
            THEN [ret |-> Err("ShouldStartFromDirectory"), root |-> <<>>,
                  base_dir |-> <<>>]
       ELSE IF ~IsRootKind(config.val[1])
            THEN [ret |-> Err("ShouldStartFromDirectory"), root |-> <<>>,
                  base_dir |-> <<>>]
       ELSE [ret |-> Pending, root |-> config.val, base_dir |-> base_dir]

New(b) ==
    /\ pc[b] = "start"
    /\ links_allowed' = [links_allowed EXCEPT ![b] = LinksAllowed(env)]
    /\ LET o == NewOutcome(b)
       IN IF o.ret # Pending
          THEN /\ newRet' = [newRet EXCEPT ![b] = o.ret]
               /\ pc' = [pc EXCEPT ![b] = "failed"]
               /\ UNCHANGED <<unit, permits, tester>>
          ELSE /\ tester' = [tester EXCEPT ![b].config = o.root]
               /\ permits' = [permits EXCEPT ![b] = SEMAPHORE_LIMIT]
               /\ unit' = [unit EXCEPT ![b] = <<1>> :> NewUnit(o.root[1], o.base_dir)]
               /\ pc' = [pc EXCEPT ![b] = "building"]
               /\ UNCHANGED newRet
    /\ UNCHANGED <<env, fs, input, copier, buildRes, rmLog, bodyLog, conv, stderr>>

\* Display for FsTesterError: what the message says after the text of the code
Display(err) ==
    IF err.sandbox_dir # NoPath THEN [dir |-> err.sandbox_dir, says |-> "will be removed"]
    ELSE [dir |-> NoPath, says |-> ""]

\* classify with WalkDir among the syntax errors
ClassifyWalkDirAsSyntax(code) ==
    CASE code \in {"EmptyConfig", "ShouldStartFromDirectory"} -> "ConfigFormat"
      [] code = "LinksNotAllowed" -> "NotAllowedSettings"
      [] code \in {"JsonSyntax", "YamlSyntax", "WalkDir"} -> "Syntax"
      [] code = "Io" -> "Io"
      [] code \in {"AcquireError", "JoinError"} -> "Multitasking"

\* FsTesterError::classify
classify(code) ==
    CASE code \in {"EmptyConfig", "ShouldStartFromDirectory"} -> "ConfigFormat"
      [] code = "LinksNotAllowed" -> "NotAllowedSettings"
      [] code \in {"JsonSyntax", "YamlSyntax"} -> "Syntax"
      [] code \in {"Io", "WalkDir"} -> "Io"
      [] code \in {"AcquireError", "JoinError"} -> "Multitasking"

is_io(error) == classify(error.code) = "Io"

is_syntax(error) == classify(error.code) = "Syntax"

is_config_format(error) == classify(error.code) = "ConfigFormat"

is_multitasking(error) == classify(error.code) = "Multitasking"

is_not_allowed_settings(error) == classify(error.code) = "NotAllowedSettings"

\* the names of the is_ methods that return true for an error
TrueOf(error) ==
    {m \in {"is_io", "is_syntax", "is_config_format", "is_multitasking",
            "is_not_allowed_settings"} :
       CASE m = "is_io" -> is_io(error)
         [] m = "is_syntax" -> is_syntax(error)
         [] m = "is_config_format" -> is_config_format(error)
         [] m = "is_multitasking" -> is_multitasking(error)
         [] m = "is_not_allowed_settings" -> is_not_allowed_settings(error)}

\* FsTesterError::io_error_kind
io_error_kind(error) == IF error.code = "Io" THEN Some(error.kind) ELSE None

\* an io::Error: its kind, and the code of the FsTesterError it wraps
IoError(kind, wraps) == [panicked |-> FALSE, kind |-> kind, wraps |-> wraps]

\* the thread has panicked at unreachable!()
Unreachable == [panicked |-> TRUE, kind |-> NoKind, wraps |-> ""]

\* From<FsTesterError> for IoError
IoErrorFrom(error) ==
    IF error.code = "Io" THEN IoError(error.kind, "")
    ELSE CASE classify(error.code) = "Io" -> Unreachable
           [] classify(error.code) \in {"Syntax", "ConfigFormat", "NotAllowedSettings",
                                        "Multitasking"} ->
                IoError("InvalidData", error.code)

\* ------------------------------------------------------------------------
\* The Builder: build_directory_with_content and the units it spawns
\* ------------------------------------------------------------------------

Running(b, t) == pc[b] = "building" /\ t \in DOMAIN unit[b]

\* the unit returns res
Finished(u, res) == [u EXCEPT !.pc = "done", !.res = res]

\* Annotate without its set_sandbox_dir
AnnotateNothing(res, level, dst_dir_path) == res

\* Annotate with the directory the root was created in
AnnotateParent(res, level, dst_dir_path) ==
    IF level = 0
    THEN [res EXCEPT !.sandbox_dir = SubSeq(dst_dir_path, 1, Len(dst_dir_path) - 1)]
    ELSE res

\* Annotate at every level, with the directory of that level
AnnotateEveryLevel(res, level, dst_dir_path) == [res EXCEPT !.sandbox_dir = dst_dir_path]
\* err.set_sandbox_dir(Some(dst_dir_path)) at level 0
Annotate(res, level, dst_dir_path) ==
    IF level = 0 THEN [res EXCEPT !.sandbox_dir = dst_dir_path] ELSE res

\* create_dir whose error is dropped: the content is spawned all the same
AfterCreateDirIgnoring(u, ok, dst_dir_path) ==
    [u EXCEPT !.pc = "spawn", !.dst = dst_dir_path, !.made = ok]

\* Self::create_dir(dst_dir_path.clone()).await?
AfterCreateDir(u, ok, dst_dir_path) ==
    IF ok THEN [u EXCEPT !.pc = "spawn", !.dst = dst_dir_path, !.made = TRUE]
    ELSE Finished([u EXCEPT !.dst = dst_dir_path], Err("Io"))

\* CreateDir behind the semaphore: it waits for a permit and takes it
CreateDirGated(b, t) ==
    /\ Running(b, t)
    /\ unit[b][t].pc = "create_dir"
    /\ permits[b] > 0
    /\ permits' = [permits EXCEPT ![b] = @ - 1]
    /\ \E uniq_code \in get_random_code :
         LET u == unit[b][t]
             dst_dir_path == gen_dir_path(u.parent, ConfOf(b, t).name, Level(t), uniq_code)
             r == FsCreateDirAll(fs, dst_dir_path)
         IN /\ fs' = r.fs
            /\ unit' = [unit EXCEPT ![b][t] = AfterCreateDir(u, r.ok, dst_dir_path)]
    /\ UNCHANGED <<env, input, pc, links_allowed, copier, buildRes, newRet, tester, rmLog, bodyLog, conv, stderr>>

\* gen_dir_path and create_dir of a Directory entry
CreateDir(b, t) ==
    /\ Running(b, t)
    /\ unit[b][t].pc = "create_dir"
    /\ \E uniq_code \in get_random_code :
         LET u == unit[b][t]
             dst_dir_path == gen_dir_path(u.parent, ConfOf(b, t).name, Level(t), uniq_code)
             r == FsCreateDirAll(fs, dst_dir_path)
         IN /\ fs' = r.fs
            /\ unit' = [unit EXCEPT ![b][t] = AfterCreateDir(u, r.ok, dst_dir_path)]
    /\ UNCHANGED <<env, input, pc, links_allowed, copier, permits, buildRes, newRet, tester, rmLog, bodyLog, conv, stderr>>

\* the for loop over directory_conf.content: one spawned unit per entry
SpawnContent(b, t) ==
    /\ Running(b, t)
    /\ unit[b][t].pc = "spawn"
    /\ LET u == unit[b][t]
           content == ConfOf(b, t).content
           handles == {t \o <<i>> : i \in 1..Len(content)}
       IN unit' = [unit EXCEPT ![b] =
                     [h \in handles |-> NewUnit(content[h[Len(h)]], u.dst)]
                     @@ [unit[b] EXCEPT ![t].pc = "join"]]
    /\ UNCHANGED <<env, fs, input, pc, links_allowed, copier, permits, buildRes, newRet, tester, rmLog, bodyLog, conv, stderr>>

\* a loop over the handles that drops the result of the child
AfterJoinIgnoring(u, joined, level) == [u EXCEPT !.join = @ + 1]

\* a join loop that does not return on the error of a child, and awaits on
AfterJoinWaiting(u, joined, level) ==
    IF joined.ok THEN [u EXCEPT !.join = @ + 1] ELSE u

\* AfterJoin without the map_err of the join loop: the error of the child is
\* returned as it came
AfterJoinUnannotated(u, joined, level) ==
    IF joined.ok THEN [u EXCEPT !.join = @ + 1]
    ELSE Finished(u, joined)

\* handle.await?.map_err(..)? on the result of a finished child: the loop goes
\* on after an Ok, and the function returns the error of the child otherwise
AfterJoin(u, joined, level) ==
    IF joined.ok THEN [u EXCEPT !.join = @ + 1]
    ELSE Finished(u, Annotate(joined, level, u.dst))

\* a function that returns Ok after it has spawned its children, and awaits
\* none of them
JoinNotAwaiting(b, t) ==
    /\ Running(b, t)
    /\ unit[b][t].pc = "join"
    /\ unit' = [unit EXCEPT ![b][t] = Finished(@, Ok(@.dst))]
    /\ UNCHANGED <<env, fs, input, pc, links_allowed, copier, permits, buildRes, newRet, tester, rmLog, bodyLog, conv, stderr>>
\* a loop over the handles that returns the error of whichever child has
\* failed, before it awaits the next handle in order
JoinFirstInTime(b, t) ==
    /\ Running(b, t)
    /\ unit[b][t].pc = "join"
    /\ LET u == unit[b][t]
           h == t \o <<u.join>>
           failed == {g \in DOMAIN unit[b] :
                        /\ Len(g) = Len(t) + 1 /\ SubSeq(g, 1, Len(t)) = t
                        /\ unit[b][g].pc = "done" /\ ~unit[b][g].res.ok}
       IN IF failed # {}
          THEN \E g \in failed :
                 unit' = [unit EXCEPT ![b][t] =
                            Finished(u, Annotate(unit[b][g].res, Level(t), u.dst))]
          ELSE IF u.join > Len(ConfOf(b, t).content)
          THEN unit' = [unit EXCEPT ![b][t] = Finished(u, Ok(u.dst))]
          ELSE /\ unit[b][h].pc \in {"done", "panicked"}
               /\ unit' = [unit EXCEPT ![b][t] =
                             IF unit[b][h].pc = "panicked"
                             THEN Finished(u, Err("JoinError"))
                             ELSE AfterJoin(u, unit[b][h].res, Level(t))]
    /\ UNCHANGED <<env, fs, input, pc, links_allowed, copier, permits, buildRes, newRet, tester, rmLog, bodyLog, conv, stderr>>
\* one round of the loop over the handles, and the Ok(dst_dir_path) after it
JoinHandle(b, t) ==
    /\ Running(b, t)
    /\ unit[b][t].pc = "join"
    /\ LET u == unit[b][t]
           h == t \o <<u.join>>
       IN IF u.join > Len(ConfOf(b, t).content)
          THEN unit' = [unit EXCEPT ![b][t] = Finished(u, Ok(u.dst))]
          ELSE /\ unit[b][h].pc \in {"done", "panicked"}
               /\ unit' = [unit EXCEPT ![b][t] =
                             IF unit[b][h].pc = "panicked"
                             THEN \* handle.await? on the JoinError of a task that panicked
                                  Finished(u, Err("JoinError"))
                             ELSE AfterJoin(u, unit[b][h].res, Level(t))]
    /\ UNCHANGED <<env, fs, input, pc, links_allowed, copier, permits, buildRes, newRet, tester, rmLog, bodyLog, conv, stderr>>

\* a File unit that goes on to create_file without a permit
AcquireNothing(b, t) ==
    /\ Running(b, t)
    /\ unit[b][t].pc = "acquire"
    /\ unit' = [unit EXCEPT ![b][t].pc = "create"]
    /\ UNCHANGED <<env, fs, input, pc, links_allowed, copier, permits, buildRes, newRet, tester, rmLog, bodyLog, conv, stderr>>

\* semaphore.acquire().await of a File unit
Acquire(b, t) ==
    /\ Running(b, t)
    /\ unit[b][t].pc = "acquire"
    /\ permits[b] > 0
    /\ permits' = [permits EXCEPT ![b] = @ - 1]
    /\ unit' = [unit EXCEPT ![b][t].pc = "create"]
    /\ UNCHANGED <<env, fs, input, pc, links_allowed, copier, buildRes, newRet, tester, rmLog, bodyLog, conv, stderr>>

\* the expect on semaphore.acquire() of a File unit panics: the semaphore was
\* closed.  The task ends, and its handle yields a JoinError.
AcquirePanics(b, t) ==
    /\ Running(b, t)
    /\ unit[b][t].pc = "acquire"
    /\ unit' = [unit EXCEPT ![b][t] = [@ EXCEPT !.pc = "panicked", !.res = Err("JoinError")]]
    /\ UNCHANGED <<env, fs, input, pc, links_allowed, copier, permits, buildRes, newRet, tester, rmLog, bodyLog, conv, stderr>>

\* create_file up to and including File::create; the permit goes back when
\* the unit ends
CreateFile(b, t) ==
    /\ Running(b, t)
    /\ unit[b][t].pc = "create"
    /\ LET u == unit[b][t]
           conf == ConfOf(b, t)
           dst_file_name == Join(u.parent, conf.name)
           r == FsCreateFile(fs, dst_file_name)
           ends == ~r.ok \/ conf.fc.tag = "empty"
       IN /\ fs' = r.fs
          /\ unit' = [unit EXCEPT ![b][t] =
                        IF ~r.ok THEN Finished([u EXCEPT !.dst = dst_file_name], Err("Io"))
                        ELSE IF conf.fc.tag = "empty"
                             THEN Finished([u EXCEPT !.dst = dst_file_name], Ok(dst_file_name))
                        ELSE [u EXCEPT !.pc = "write", !.dst = dst_file_name]]
          /\ permits' = [permits EXCEPT ![b] = IF ends THEN @ + 1 ELSE @]
    /\ UNCHANGED <<env, input, pc, links_allowed, copier, buildRes, newRet, tester, rmLog, bodyLog, conv, stderr>>

\* the match on conf.content of create_file
WriteFile(b, t) ==
    /\ Running(b, t)
    /\ unit[b][t].pc = "write"
    /\ LET u == unit[b][t]
           fc == ConfOf(b, t).fc
           opened == fc.tag # "original_file" \/ FsOpenOk(fs, fc.path)
           bytes == CASE fc.tag = "inline_bytes" -> fc.bytes
                      [] fc.tag = "inline_text" -> AsBytes(fc.text)
                      [] fc.tag = "original_file" -> FsRead(fs, fc.path)
       IN /\ fs' = IF opened THEN FsWrite(fs, u.dst, bytes) ELSE fs
          /\ unit' = [unit EXCEPT ![b][t] =
                        Finished(u, IF opened THEN Ok(u.dst) ELSE Err("Io"))]
    /\ permits' = [permits EXCEPT ![b] = @ + 1]
    /\ UNCHANGED <<env, input, pc, links_allowed, copier, buildRes, newRet, tester, rmLog, bodyLog, conv, stderr>>

\* create_link that reads LINKS_ALLOWED when it runs, instead of Permissions
CreateLinkReadingEnv(b, t) ==
    /\ Running(b, t)
    /\ unit[b][t].pc = "link"
    /\ LET u == unit[b][t]
           conf == ConfOf(b, t)
           link_name == Join(u.parent, conf.name)
           target_name == PathBufFrom(conf.ref)
           r == FsHardLink(fs, target_name, link_name)
       IN IF LinksAllowed(env)
          THEN /\ fs' = r.fs
               /\ unit' = [unit EXCEPT ![b][t] =
                             Finished([u EXCEPT !.dst = link_name],
                                      IF r.ok THEN Ok(link_name) ELSE Err("Io"))]
          ELSE /\ fs' = fs
               /\ unit' = [unit EXCEPT ![b][t] = Finished(u, Err("LinksNotAllowed"))]
    /\ UNCHANGED <<env, input, pc, links_allowed, copier, permits, buildRes, newRet, tester, rmLog, bodyLog, conv, stderr>>
\* create_link
CreateLink(b, t) ==
    /\ Running(b, t)
    /\ unit[b][t].pc = "link"
    /\ LET u == unit[b][t]
           conf == ConfOf(b, t)
           link_name == Join(u.parent, conf.name)
           target_name == PathBufFrom(conf.ref)
           r == FsHardLink(fs, target_name, link_name)
       IN IF links_allowed[b]
          THEN /\ fs' = r.fs
               /\ unit' = [unit EXCEPT ![b][t] =
                             Finished([u EXCEPT !.dst = link_name],
                                      IF r.ok THEN Ok(link_name) ELSE Err("Io"))]
          ELSE /\ fs' = fs
               /\ unit' = [unit EXCEPT ![b][t] = Finished(u, Err("LinksNotAllowed"))]
    /\ UNCHANGED <<env, input, pc, links_allowed, copier, permits, buildRes, newRet, tester, rmLog, bodyLog, conv, stderr>>
\* ------------------------------------------------------------------------
\* The Cloner: clone_directory, copy_dir and the copies it spawns.  The
\* recursion of copy_dir is the stack u.frames of the unit; a frame is one
\* call of copy_dir after its create_dir.
\* ------------------------------------------------------------------------

\* a walk that yields the directory itself and nothing in it
WalkNothing(f, src_path) == {}

\* WalkDir::new(src).max_depth(1).into_iter().skip(1): the names in src.  The
\* first item, which skip(1) drops, is src itself, or the error of a src that
\* does not exist; nothing follows it unless src is a directory.
WalkEntries(f, src_path) ==
    IF FsIsDir(f, Abs(src_path))
    THEN {q[Len(q)] : q \in FsChildren(f, Abs(src_path))}
    ELSE {}

\* copy_dir from its first line to the loop over the entries
EnterCopyDir(f, src_path, dst_path) ==
    LET r == FsCreateDirAll(f, dst_path)
    IN [ok |-> r.ok, fs |-> r.fs,
        frame |-> [src |-> src_path, dst |-> dst_path,
                   todo |-> WalkEntries(r.fs, src_path),
                   handles |-> <<>>, join |-> 1]]

CopierKey(t, dst_entry_path) == [owner |-> t, dst |-> dst_entry_path]

\* clone_directory up to the loop of its copy_dir
CloneCreate(b, t) ==
    /\ Running(b, t)
    /\ unit[b][t].pc = "clone_create"
    /\ \E uniq_code \in get_random_code :
         LET u == unit[b][t]
             conf == ConfOf(b, t)
             dst_dir_path == gen_dir_path(u.parent, conf.name, Level(t), uniq_code)
             src_dir_path == PathBufFrom(conf.ref)
             r == EnterCopyDir(fs, src_dir_path, dst_dir_path)
         IN /\ fs' = r.fs
            /\ unit' = [unit EXCEPT ![b][t] =
                          IF r.ok
                          THEN [u EXCEPT !.pc = "copy_dir", !.dst = dst_dir_path,
                                         !.made = TRUE, !.frames = <<r.frame>>]
                          ELSE Finished([u EXCEPT !.dst = dst_dir_path],
                                        Annotate(Err("Io"), Level(t), dst_dir_path))]
    /\ UNCHANGED <<env, input, pc, links_allowed, copier, permits, buildRes, newRet, tester, rmLog, bodyLog, conv, stderr>>

\* is_file that is true of everything that is not a directory
IsFileUnlessDir(f, c) == FsIsFile(f, c) \/ c \in f.others

\* entry_metadata.is_file(): the metadata of the entry itself, no link is
\* followed
MetadataIsFile(f, c) == FsIsFile(f, c)

\* entry_metadata.is_dir()
MetadataIsDir(f, c) == FsIsDir(f, c)

\* one round of the loop over the entries of the source directory
CopyDirEntry(b, t) ==
    /\ Running(b, t)
    /\ unit[b][t].pc = "copy_dir"
    /\ LET u == unit[b][t]
           n == Len(u.frames)
           top == u.frames[n]
           fail == Finished(u, Annotate(Err("Io"), Level(t), u.dst))
       IN \E filename \in top.todo :
          \E src_entry_path \in {Join(top.src, <<filename>>)} :
          \E dst_entry_path \in {Join(top.dst, <<filename>>)} :
          \E created \in {FsCreateFile(fs, dst_entry_path)} :
          \E entered \in {EnterCopyDir(fs, src_entry_path, dst_entry_path)} :
            LET rest == [top EXCEPT !.todo = @ \ {filename}]
            IN IF MetadataIsFile(fs, Abs(src_entry_path))
               THEN \* File::open, File::create and the spawn of the copy
                    /\ fs' = IF FsOpenOk(fs, src_entry_path) THEN created.fs ELSE fs
                    /\ IF FsOpenOk(fs, src_entry_path) /\ created.ok
                       THEN /\ unit' = [unit EXCEPT ![b][t].frames[n] =
                                          [rest EXCEPT !.handles = Append(@, dst_entry_path)]]
                            /\ copier' = [copier EXCEPT ![b] =
                                            CopierKey(t, dst_entry_path) :>
                                              [pc |-> "acquire", src |-> src_entry_path,
                                               dst |-> dst_entry_path, res |-> Pending]
                                            @@ @]
                       ELSE /\ unit' = [unit EXCEPT ![b][t] = fail]
                            /\ UNCHANGED copier
               ELSE IF MetadataIsDir(fs, Abs(src_entry_path))
               THEN \* copy_dir_boxed(..).await?
                    /\ fs' = entered.fs
                    /\ unit' = [unit EXCEPT ![b][t] =
                                  IF entered.ok
                                  THEN [u EXCEPT !.frames = Append([@ EXCEPT ![n] = rest],
                                                                    entered.frame)]
                                  ELSE fail]
                    /\ UNCHANGED copier
               ELSE IF FsExists(fs, Abs(src_entry_path))
               THEN \* neither branch of the if: on to the next entry
                    /\ unit' = [unit EXCEPT ![b][t].frames[n] = rest]
                    /\ UNCHANGED <<fs, copier>>
               ELSE \* entry.metadata()? of an entry that is gone
                    /\ unit' = [unit EXCEPT ![b][t] =
                                  Finished(u, Annotate(Err("WalkDir"), Level(t), u.dst))]
                    /\ UNCHANGED <<fs, copier>>
    /\ UNCHANGED <<env, input, pc, links_allowed, permits, buildRes, newRet, tester, rmLog, bodyLog, conv, stderr>>

\* one round of the loop over the handles of copy_dir, and its Ok(dst_dir_name)
CopyDirJoin(b, t) ==
    /\ Running(b, t)
    /\ unit[b][t].pc = "copy_dir"
    /\ LET u == unit[b][t]
           n == Len(u.frames)
           top == u.frames[n]
           k == CopierKey(t, top.handles[top.join])
       IN /\ top.todo = {}
          /\ IF top.join > Len(top.handles)
             THEN unit' = [unit EXCEPT ![b][t] =
                             IF n = 1 THEN Finished(u, Ok(u.dst))
                             ELSE [u EXCEPT !.frames = SubSeq(@, 1, n - 1)]]
             ELSE /\ copier[b][k].pc \in {"done", "panicked"}
                  /\ unit' = [unit EXCEPT ![b][t] =
                                IF copier[b][k].res.ok
                                THEN [u EXCEPT !.frames[n].join = @ + 1]
                                ELSE Finished(u, Annotate(copier[b][k].res, Level(t), u.dst))]
    /\ UNCHANGED <<env, fs, input, pc, links_allowed, copier, permits, buildRes, newRet, tester, rmLog, bodyLog, conv, stderr>>

\* semaphore.acquire().await of a spawned copy
CopyAcquire(b, k) ==
    /\ pc[b] = "building"
    /\ k \in DOMAIN copier[b]
    /\ copier[b][k].pc = "acquire"
    /\ permits[b] > 0
    /\ permits' = [permits EXCEPT ![b] = @ - 1]
    /\ copier' = [copier EXCEPT ![b][k].pc = "copy"]
    /\ UNCHANGED <<env, fs, input, pc, links_allowed, unit, buildRes, newRet, tester, rmLog, bodyLog, conv, stderr>>

\* the expect on semaphore.acquire() of a spawned copy panics
CopyAcquirePanics(b, k) ==
    /\ pc[b] = "building"
    /\ k \in DOMAIN copier[b]
    /\ copier[b][k].pc = "acquire"
    /\ copier' = [copier EXCEPT ![b][k] = [@ EXCEPT !.pc = "panicked", !.res = Err("JoinError")]]
    /\ UNCHANGED <<env, fs, input, pc, links_allowed, unit, permits, buildRes, newRet, tester, rmLog, bodyLog, conv, stderr>>

\* a spawned copy whose permit is not given back when it ends
CopyBytesKeepingPermit(b, k) ==
    /\ pc[b] = "building"
    /\ k \in DOMAIN copier[b]
    /\ copier[b][k].pc = "copy"
    /\ LET c == copier[b][k]
       IN /\ fs' = FsWrite(fs, c.dst, FsRead(fs, c.src))
          /\ copier' = [copier EXCEPT ![b][k] = [c EXCEPT !.pc = "done", !.res = Ok(c.dst)]]
    /\ UNCHANGED <<env, input, pc, links_allowed, unit, permits, buildRes, newRet, tester, rmLog, bodyLog, conv, stderr>>
\* tokio::io::copy(&mut src_file, &mut dst_file) of a spawned copy
CopyBytes(b, k) ==
    /\ pc[b] = "building"
    /\ k \in DOMAIN copier[b]
    /\ copier[b][k].pc = "copy"
    /\ LET c == copier[b][k]
       IN /\ fs' = FsWrite(fs, c.dst, FsRead(fs, c.src))
          /\ copier' = [copier EXCEPT ![b][k] = [c EXCEPT !.pc = "done", !.res = Ok(c.dst)]]
    /\ permits' = [permits EXCEPT ![b] = @ + 1]
    /\ UNCHANGED <<env, input, pc, links_allowed, unit, buildRes, newRet, tester, rmLog, bodyLog, conv, stderr>>
\* ------------------------------------------------------------------------
\* FsTester, from the end of the build on
\* ------------------------------------------------------------------------

\* a runtime whose drop leaves the tasks as they are
LeftWaiting(u) == u

\* a task the runtime drops before it has finished
Cancelled(u) == IF u.pc \in {"done", "panicked"} THEN u ELSE [u EXCEPT !.pc = "cancelled"]

\* block_on returns the result of the root entry and the runtime is dropped
\* at the end of the match arm: the thread blocks until every spawned task
\* has stopped, and a task that has not finished is dropped where it waits.
\* A dropped task gives its permit back.
BlockOnReturn(b) ==
    /\ pc[b] = "building"
    /\ unit[b][<<1>>].pc = "done"
    /\ buildRes' = [buildRes EXCEPT ![b] = unit[b][<<1>>].res]
    /\ unit' = [unit EXCEPT ![b] = [t \in DOMAIN @ |-> Cancelled(@[t])]]
    /\ copier' = [copier EXCEPT ![b] = [k \in DOMAIN @ |-> Cancelled(@[k])]]
    /\ permits' = [permits EXCEPT ![b] = SEMAPHORE_LIMIT]
    /\ pc' = [pc EXCEPT ![b] = "returning"]
    /\ UNCHANGED <<env, fs, input, links_allowed, newRet, tester, rmLog, bodyLog, conv, stderr>>

\* a call of std::fs::remove_dir_all, as the log keeps it
Removal(by, path, ok) == [by |-> by, path |-> path, ok |-> ok]

\* the rest of new: the rollback of a failed build, and the return
NewReturn(b) ==
    /\ pc[b] = "returning"
    /\ LET error == buildRes[b]
           dst_dir_path == error.sandbox_dir
           r == FsRemoveDirAll(fs, dst_dir_path)
       IN IF error.ok
          THEN /\ tester' = [tester EXCEPT ![b].by = "new", ![b].base_dir = error.val]
               /\ newRet' = [newRet EXCEPT ![b] = error]
               /\ pc' = [pc EXCEPT ![b] = "owned"]
               /\ UNCHANGED <<fs, rmLog>>
          ELSE /\ pc' = [pc EXCEPT ![b] = "failed"]
               /\ UNCHANGED tester
               /\ IF dst_dir_path = NoPath
                  THEN /\ newRet' = [newRet EXCEPT ![b] = error]
                       /\ UNCHANGED <<fs, rmLog>>
                  ELSE IF ~FsExists(fs, Abs(dst_dir_path))
                  THEN \* std::fs::metadata(&dst_dir_path)?
                       /\ newRet' = [newRet EXCEPT ![b] = Err("Io")]
                       /\ UNCHANGED <<fs, rmLog>>
                  ELSE IF /\ FsIsDir(fs, Abs(dst_dir_path))
                          /\ ~cmp_canonical_paths(fs, <<"/">>, dst_dir_path)
                          /\ ~cmp_canonical_paths(fs, <<".">>, dst_dir_path)
                  THEN \* std::fs::remove_dir_all(&dst_dir_path)?
                       /\ fs' = r.fs
                       /\ rmLog' = [rmLog EXCEPT ![b] =
                                      Append(@, Removal("rollback", dst_dir_path, r.ok))]
                       /\ newRet' = [newRet EXCEPT ![b] = IF r.ok THEN error ELSE Err("Io")]
                  ELSE /\ newRet' = [newRet EXCEPT ![b] = error]
                       /\ UNCHANGED <<fs, rmLog>>
    /\ UNCHANGED <<env, input, links_allowed, unit, copier, permits, buildRes, bodyLog, conv, stderr>>

\* base_dir is a public field: paths a caller can put into an FsTester value
\* that it builds or changes itself
LiteralDirs == {<<".">>, <<"/">>, <<"/", "w">>, <<"sp">>, <<"gone">>}

\* an FsTester value written by the caller, without new
Literal(b) ==
    /\ pc[b] = "start"
    /\ \E d \in LiteralDirs :
         tester' = [tester EXCEPT ![b] = [by |-> "literal", base_dir |-> d, config |-> <<>>]]
    /\ pc' = [pc EXCEPT ![b] = "owned"]
    /\ UNCHANGED <<env, fs, input, links_allowed, unit, copier, permits, buildRes,
                   newRet, rmLog, bodyLog, conv, stderr>>

\* a call of the test body, as the log keeps it
BodyCall(dirname, passes) == [dirname |-> dirname, ok |-> passes]

\* perform_fs_test that drops the result of the body
AfterBodyIgnoring(passes) == "performed"

\* if let Err(e) = test_proc(dirname) { panic!(..) } else { () }
AfterBody(passes) == IF passes THEN "performed" ELSE "panicking"

\* perform_fs_test: the body is called with base_dir; an Err of the body is a
\* panic.  The body may delete the sandbox itself.
perform_fs_test(b) ==
    /\ pc[b] = "owned"
    /\ \E passes \in BOOLEAN, deletes \in BOOLEAN :
         /\ deletes => tester[b].by = "new"
         /\ fs' = IF deletes THEN FsRemoveDirAll(fs, tester[b].base_dir).fs ELSE fs
         /\ pc' = [pc EXCEPT ![b] = AfterBody(passes)]
         /\ bodyLog' = [bodyLog EXCEPT ![b] = Append(@, BodyCall(tester[b].base_dir, passes))]
    /\ UNCHANGED <<env, input, links_allowed, unit, copier, permits, buildRes,
                   newRet, tester, rmLog, conv, stderr>>

\* eprintln!("Failed to delete directory {} due error: {}", ..)
FailedToDelete(sandbox_dir) == <<"Failed to delete directory", sandbox_dir>>

\* eprintln!("Accidental deletion of the current directory is prevented ..")
DeletionPrevented == <<"Accidental deletion of the current directory is prevented">>

\* a drop that panics when remove_dir_all has failed: the tester is unwound
\* again
AfterRemovePanicking(was, ok) ==
    IF was = "panicking" THEN "aborted" ELSE IF ok THEN "dropped" ELSE "panicking"

\* where the owner is when drop has returned: drop returns () whatever
\* remove_dir_all has returned, and the panic that was unwinding goes on
AfterRemove(was, ok) == IF was = "panicking" THEN "aborted" ELSE "dropped"

\* Drop for FsTester, when the owner's scope ends or a panic unwinds it
Drop(b) ==
    /\ pc[b] \in {"owned", "performed", "panicking"}
    /\ LET sandbox_dir == tester[b].base_dir
           r == FsRemoveDirAll(fs, sandbox_dir)
       IN IF /\ ~cmp_canonical_paths(fs, <<"/">>, sandbox_dir)
             /\ ~cmp_canonical_paths(fs, <<".">>, sandbox_dir)
          THEN /\ fs' = r.fs
               /\ rmLog' = [rmLog EXCEPT ![b] = Append(@, Removal("drop", sandbox_dir, r.ok))]
               /\ stderr' = [stderr EXCEPT ![b] =
                               IF r.ok THEN @ ELSE Append(@, FailedToDelete(sandbox_dir))]
               /\ pc' = [pc EXCEPT ![b] = AfterRemove(pc[b], r.ok)]
          ELSE /\ stderr' = [stderr EXCEPT ![b] = Append(@, DeletionPrevented)]
               /\ pc' = [pc EXCEPT ![b] = AfterRemove(pc[b], TRUE)]
               /\ UNCHANGED <<fs, rmLog>>
    /\ UNCHANGED <<env, input, links_allowed, unit, copier, permits, buildRes,
                   newRet, tester, bodyLog, conv>>

\* ------------------------------------------------------------------------
\* An FsTesterError in the hands of the caller
\* ------------------------------------------------------------------------

\* the caller has the error, and has not given it away
Held == conv.error # NoError /\ conv.io = None

\* error.classify()
Classify ==
    /\ Held
    /\ conv.category = None
    /\ conv' = [conv EXCEPT !.category = Some(classify(conv.error.code))]
    /\ UNCHANGED <<env, fs, input, pc, links_allowed, unit, copier, permits, buildRes,
                   newRet, tester, rmLog, bodyLog, stderr>>

\* the five is_ methods, each called on the error
AskIs ==
    /\ Held
    /\ conv.is = None
    /\ conv' = [conv EXCEPT !.is = Some(TrueOf(conv.error))]
    /\ UNCHANGED <<env, fs, input, pc, links_allowed, unit, copier, permits, buildRes,
                   newRet, tester, rmLog, bodyLog, stderr>>

\* error.io_error_kind()
AskKind ==
    /\ Held
    /\ conv.kind = None
    /\ conv' = [conv EXCEPT !.kind = Some(io_error_kind(conv.error))]
    /\ UNCHANGED <<env, fs, input, pc, links_allowed, unit, copier, permits, buildRes,
                   newRet, tester, rmLog, bodyLog, stderr>>

\* std::io::Error::from(error), as the ? operator calls it in a function that
\* returns io::Result; the error is moved into the conversion
IntoIoError ==
    /\ Held
    /\ conv' = [conv EXCEPT !.io = Some(IoErrorFrom(conv.error))]
    /\ UNCHANGED <<env, fs, input, pc, links_allowed, unit, copier, permits, buildRes,
                   newRet, tester, rmLog, bodyLog, stderr>>

\* ------------------------------------------------------------------------
\* The specification
\* ------------------------------------------------------------------------

Units(b) == DOMAIN unit[b]

Copiers(b) == DOMAIN copier[b]

Next ==
    \E b \in Builds :
        \/ New(b)
        \/ Literal(b)
        \/ \E t \in Units(b) : CreateDir(b, t)
        \/ \E t \in Units(b) : SpawnContent(b, t)
        \/ \E t \in Units(b) : JoinHandle(b, t)
        \/ \E t \in Units(b) : Acquire(b, t)
        \/ \E t \in Units(b) : CreateFile(b, t)
        \/ \E t \in Units(b) : WriteFile(b, t)
        \/ \E t \in Units(b) : CreateLink(b, t)
        \/ \E t \in Units(b) : CloneCreate(b, t)
        \/ \E t \in Units(b) : CopyDirEntry(b, t)
        \/ \E t \in Units(b) : CopyDirJoin(b, t)
        \/ \E k \in Copiers(b) : CopyAcquire(b, k)
        \/ \E k \in Copiers(b) : CopyBytes(b, k)
        \/ BlockOnReturn(b)
        \/ NewReturn(b)
        \/ perform_fs_test(b)
        \/ Drop(b)

Spec == Init /\ [][Next]_vars

SpecTwo == InitTwo /\ [][Next]_vars

\* the steps of new of a tester: of the thread that called it inside
\* block_on, and of the tasks its runtime runs
NewSteps(b) ==
    \/ New(b)
    \/ \E t \in Units(b) : CreateDir(b, t)
    \/ \E t \in Units(b) : SpawnContent(b, t)
    \/ \E t \in Units(b) : JoinHandle(b, t)
    \/ \E t \in Units(b) : Acquire(b, t)
    \/ \E t \in Units(b) : CreateFile(b, t)
    \/ \E t \in Units(b) : WriteFile(b, t)
    \/ \E t \in Units(b) : CreateLink(b, t)
    \/ \E t \in Units(b) : CloneCreate(b, t)
    \/ \E t \in Units(b) : CopyDirEntry(b, t)
    \/ \E t \in Units(b) : CopyDirJoin(b, t)
    \/ \E k \in Copiers(b) : CopyAcquire(b, k)
    \/ \E k \in Copiers(b) : CopyBytes(b, k)
    \/ BlockOnReturn(b)
    \/ NewReturn(b)

\* the runtime runs every task that can run, and block_on drives the root
\* future: a step of new that stays possible is taken
SpecLive == InitLive /\ [][Next]_vars /\ \A b \in Builds : WF_vars(NewSteps(b))

NextErrors == Classify \/ AskIs \/ AskKind \/ IntoIoError

\* the methods of FsTesterError, applied to an error of any code
SpecErrors == InitErrors /\ [][NextErrors]_vars

\* another thread of the process sets LINKS_ALLOWED (std::env::set_var) to
\* a value that changes what env::var gives
SetEnv(v) ==
    /\ env # v
    /\ env' = v
    /\ UNCHANGED <<fs, input, pc, links_allowed, unit, copier, permits, buildRes, newRet,
                   tester, rmLog, bodyLog, conv, stderr>>

\* the texts that are built while the environment changes: two links side
\* by side, a link below a directory next to a link, a clone next to a file
EnvTexts ==
    {Text("-", TRUE, <<DirectoryConf(<<"r">>, c)>>) :
       c \in {<<LinkConf(<<"l">>, CargoToml), LinkConf(<<"m">>, CargoToml)>>,
              <<DirectoryConf(<<"d">>, <<LinkConf(<<"l">>, CargoToml)>>),
                LinkConf(<<"m">>, CargoToml)>>,
              <<CloneDirectoryConf(<<"k">>, <<"src", "rfs">>),
                FileConf(<<"a">>, InlineText("hi"))>>}}

\* one tester, in a process whose environment is not the same all the time
InitEnv ==
    /\ InitCommon
    /\ \E i \in [config_str : EnvTexts, start_point : {<<>>}, env : {"Y", "N"}] :
         /\ input = [b \in Builds |-> IF b = 1 THEN i ELSE NoInput]
         /\ env = i.env
    /\ pc = [b \in Builds |-> IF b = 1 THEN "start" ELSE "idle"]
    /\ conv = NoConv

NextEnv ==
    \/ Next
    \/ \E v \in {"Y", "N"} : SetEnv(v)

SpecEnv == InitEnv /\ [][NextEnv]_vars
\* the file system with a symbolic link in src and a socket in src/rfs
SpecialFs ==
    [InitFs EXCEPT !.others = {Cwd \o <<"src", "ln">>, Cwd \o <<"src", "rfs", "sock">>}]

\* clones of src and of src/rfs, at the root and below it
SpecialTexts ==
    {Text("-", TRUE, <<r>>) :
       r \in {CloneDirectoryConf(<<"r">>, <<"src">>),
              CloneDirectoryConf(<<"r">>, <<"src", "rfs">>),
              DirectoryConf(<<"r">>, <<CloneDirectoryConf(<<"k">>, <<"src", "rfs">>),
                                       FileConf(<<"a">>, InlineText("hi"))>>),
              DirectoryConf(<<"r">>, <<LinkConf(<<"l">>, CargoToml),
                                       CloneDirectoryConf(<<"k">>, <<"src">>)>>)}}

\* one tester that clones a directory with entries that are neither files
\* nor directories
InitSpecial ==
    /\ fs = SpecialFs
    /\ InitTesters
    /\ \E i \in [config_str : SpecialTexts, start_point : {<<>>, <<"sp">>}, env : {"Y"}] :
         /\ input = [b \in Builds |-> IF b = 1 THEN i ELSE NoInput]
         /\ env = i.env
    /\ pc = [b \in Builds |-> IF b = 1 THEN "start" ELSE "idle"]
    /\ conv = NoConv

SpecSpecial == InitSpecial /\ [][Next]_vars
\* texts in both formats, as they are and after a line feed.  serde_yaml
\* reads a text that starts with a line feed as it reads the rest of it; what
\* it makes of a JSON text is either a configuration or an error.
PaddedTexts ==
    LET plain == EnvTexts
                 \cup {Text("[", TRUE, <<DirectoryConf(<<"r">>, <<>>)>>),
                       Text("{", FALSE, <<>>), Text("[", FALSE, <<>>),
                       Text("-", FALSE, <<>>), Text("n", FALSE, <<>>)}
        padded == {Padded(text) : text \in plain}
    IN plain \cup padded \cup {[text EXCEPT !.ok = FALSE] : text \in padded}

\* one tester for a text of either format
InitParse ==
    /\ InitCommon
    /\ \E i \in [config_str : PaddedTexts, start_point : {<<>>}, env : {"Y"}] :
         /\ input = [b \in Builds |-> IF b = 1 THEN i ELSE NoInput]
         /\ env = i.env
    /\ pc = [b \in Builds |-> IF b = 1 THEN "start" ELSE "idle"]
    /\ conv = NoConv

SpecParse == InitParse /\ [][Next]_vars
\* the steps of the program when an acquire of the semaphore can fail
NextFaults ==
    \/ Next
    \/ \E b \in Builds : \E t \in Units(b) : AcquirePanics(b, t)
    \/ \E b \in Builds : \E k \in Copiers(b) : CopyAcquirePanics(b, k)

SpecFaults == Init /\ [][NextFaults]_vars
\* ------------------------------------------------------------------------
\* Properties
\* ------------------------------------------------------------------------

\* the testers that went through new
Called(b) == pc[b] \notin {"idle", "start"} /\ tester[b].by # "literal"

\* new has returned an error
NewFailed(b) == Called(b) /\ pc[b] = "failed"

\* the root entry of the build has created its directory
RootMade(b) == <<1>> \in Units(b) /\ unit[b][<<1>>].made

RootDst(b) == unit[b][<<1>>].dst

\* C1 (rollback): when new has returned an error after the root directory
\* was created, the root directory does not exist.
C1_Rollback ==
    \A b \in Builds :
        (NewFailed(b) /\ RootMade(b)) => ~FsExists(fs, Abs(RootDst(b)))

\* a failed build whose root directory was created, and removed by the rollback
C1_Witness ==
    /\ NewFailed(1) /\ RootMade(1)
    /\ newRet[1].code = "Io"
    /\ rmLog[1] = <<Removal("rollback", RootDst(1), TRUE)>>
\* the tester holds an FsTester that new returned
Built(b) == tester[b].by = "new"

Alive(b) == pc[b] \in {"owned", "performed", "panicking"}

Gone(b) == pc[b] \in {"dropped", "aborted"}

\* C2 (teardown): an FsTester that new returned has had no remove_dir_all
\* while it is alive, and once Drop has run base_dir does not exist and
\* remove_dir_all was called once, by Drop, on base_dir.
C2_Teardown ==
    \A b \in Builds :
        Built(b) =>
            /\ Alive(b) => rmLog[b] = <<>>
            /\ Gone(b) =>
                 /\ ~FsExists(fs, Abs(tester[b].base_dir))
                 /\ Len(rmLog[b]) = 1
                 /\ rmLog[b][1].by = "drop"
                 /\ rmLog[b][1].path = tester[b].base_dir

\* a sandbox that was built, used and deleted by Drop
C2_Witness ==
    /\ Built(1) /\ pc[1] = "dropped"
    /\ Len(bodyLog[1]) = 1
    /\ rmLog[1] = <<Removal("drop", tester[1].base_dir, TRUE)>>

\* C3 (deletion guard): no remove_dir_all is called on a path whose canonical
\* form is that of "/" or of ".".
C3_DeletionGuard ==
    \A b \in Builds : \A i \in 1..Len(rmLog[b]) :
        Abs(rmLog[b][i].path) \notin {Abs(<<"/">>), Abs(<<".">>)}

\* an FsTester whose base_dir is the working directory under another name
\* was dropped, and nothing was deleted
C3_Witness ==
    /\ pc[1] = "dropped"
    /\ tester[1].base_dir = <<"/", "w">>
    /\ rmLog[1] = <<>>
    /\ FsIsDir(fs, Cwd)

\* the configuration new parsed, and the directory it builds in
Parsed(b) == parse_config(input[b].config_str)

StartDir(b) == IF input[b].start_point = <<>> THEN <<".">> ELSE input[b].start_point

\* name with "_" and a code at its end
Suffixed(name) ==
    {SubSeq(name, 1, Len(name) - 1) \o <<name[Len(name)] \o "_" \o ToString(c)>> :
       c \in 1..MaxCode}

\* C4 (deletion hits the own root only): every remove_dir_all of a tester that
\* went through new is called on the root path that this build generated
\* (start_point joined with name_<code>) and created; it is not start_point,
\* and nothing that was there before the build is deleted.
C4_RemovesOwnRoot ==
    \A b \in Builds :
        Called(b) =>
            /\ \A i \in 1..Len(rmLog[b]) :
                 /\ RootMade(b)
                 /\ rmLog[b][i].path = RootDst(b)
                 /\ \E n \in Suffixed(Parsed(b).val[1].name) :
                      rmLog[b][i].path = StartDir(b) \o n
                 /\ Abs(rmLog[b][i].path) # Abs(StartDir(b))
                 /\ ~FsExists(InitFs, Abs(rmLog[b][i].path))
            /\ InitFs.dirs \subseteq fs.dirs
            /\ \A f \in DOMAIN InitFs.files : FsIsFile(fs, f)

\* a failed build below sp, rolled back, with sp and the rest in place
C4_Witness ==
    /\ NewFailed(1)
    /\ input[1].start_point = <<"sp">>
    /\ Len(rmLog[1]) = 1 /\ rmLog[1][1].by = "rollback" /\ rmLog[1][1].ok
    /\ FsIsDir(fs, Cwd \o <<"sp">>)

\* the configuration does not start from a single directory
BadStart(conf) == Len(conf) # 1 \/ conf[1].kind \in {"file", "link"}

\* C5 (validation): new on a configuration that has not exactly one top-level
\* entry, or whose single entry is a File or a Link, returns
\* ShouldStartFromDirectory, a ConfigFormat error, and the file system is as
\* it was: no unit was started and nothing was created or removed.
C5_Validation ==
    \A b \in Builds :
        (Called(b) /\ Parsed(b).ok /\ BadStart(Parsed(b).val)) =>
            /\ pc[b] = "failed"
            /\ newRet[b].code = "ShouldStartFromDirectory"
            /\ classify(newRet[b].code) = "ConfigFormat"
            /\ Units(b) = {}
            /\ rmLog[b] = <<>>
            /\ fs = InitFs

\* new has refused a configuration whose single entry is a Link, from a
\* start point that is a directory
C5_Witness ==
    /\ NewFailed(1)
    /\ Parsed(1).ok /\ Len(Parsed(1).val) = 1 /\ Parsed(1).val[1].kind = "link"
    /\ FsIsDir(fs, Abs(StartDir(1)))
    /\ newRet[1].code = "ShouldStartFromDirectory"
\* C6 (uniqueness): two testers that new built from the same configuration
\* and the same start point have different root directories.
C6_Uniqueness ==
    \A b1, b2 \in Builds :
        (b1 # b2 /\ Built(b1) /\ Built(b2) /\ input[b1] = input[b2]) =>
            tester[b1].base_dir # tester[b2].base_dir

\* the unit that spawned unit t
ParentOf(t) == SubSeq(t, 1, Len(t) - 1)

IsDirUnit(b, t) == unit[b][t].kind \in {"directory", "clone_directory"}

\* what the build has made is on disk: new has not rolled it back, and it is
\* in nobody's hands but the build's
Standing(b) == pc[b] \in {"building", "returning", "owned"}

\* the directories at and below a directory of the file system before the
\* build, as paths relative to it
SubDirs(c) == {SubSeq(d, Len(c) + 1, Len(d)) : d \in {e \in InitFs.dirs : IsPrefix(c, e)}}

\* C7 (naming): the root directory is created as name_<code> in the start
\* directory, and every other directory under the name it is configured
\* with, or has in the source of a clone, in the directory of its parent.
C7_Naming ==
    \A b \in Builds : \A t \in Units(b) :
        (IsDirUnit(b, t) /\ unit[b][t].made) =>
            LET u == unit[b][t]
                name == ConfOf(b, t).name
            IN /\ Level(t) = 0 => /\ u.parent = StartDir(b)
                                  /\ \E n \in Suffixed(name) : u.dst = u.parent \o n
               /\ Level(t) > 0 => /\ u.parent = unit[b][ParentOf(t)].dst
                                  /\ u.dst = u.parent \o name
               /\ Standing(b) => FsIsDir(fs, Abs(u.dst))
               /\ \A n \in 2..Len(u.frames) :
                    /\ u.frames[n].src = u.frames[n - 1].src \o <<u.frames[n].src[Len(u.frames[n].src)]>>
                    /\ u.frames[n].dst = u.frames[n - 1].dst \o <<u.frames[n].src[Len(u.frames[n].src)]>>
                    /\ Standing(b) => FsIsDir(fs, Abs(u.frames[n].dst))
               /\ (u.kind = "clone_directory" /\ u.res.ok /\ Standing(b)) =>
                    \A rel \in SubDirs(Abs(ConfOf(b, t).ref)) : FsIsDir(fs, Abs(u.dst) \o rel)

\* a clone below the root is copying a subdirectory of its source
C7_Witness ==
    /\ pc[1] = "building"
    /\ <<1, 1>> \in Units(1)
    /\ unit[1][<<1, 1>>].kind = "clone_directory"
    /\ Len(unit[1][<<1, 1>>].frames) = 2
    /\ FsIsDir(fs, Abs(unit[1][<<1>>].dst \o <<"k", "rfs">>))

\* every entry of a configuration, at any depth
RECURSIVE AllEntries(_)
AllEntries(content) ==
    UNION {{content[i]} \cup AllEntries(content[i].content) : i \in 1..Len(content)}

\* no two entries of a directory have the same name, at any depth
RECURSIVE DistinctNames(_)
DistinctNames(content) ==
    /\ \A i, j \in 1..Len(content) : i # j => content[i].name # content[j].name
    /\ \A i \in 1..Len(content) : DistinctNames(content[i].content)

\* a configuration with a Link in it that new accepts, in which no entry
\* fails for a reason of its own
LinkConfig(b) ==
    /\ Parsed(b).ok /\ ~BadStart(Parsed(b).val)
    /\ FsIsDir(InitFs, Abs(StartDir(b)))
    /\ Len(Parsed(b).val[1].name) = 1
    /\ DistinctNames(Parsed(b).val)
    /\ \E e \in AllEntries(Parsed(b).val) : e.kind = "link"
    /\ \A e \in AllEntries(Parsed(b).val) :
         /\ e.kind = "link" => FsIsFile(InitFs, Abs(e.ref))
         /\ e.fc.tag = "original_file" => FsIsFile(InitFs, Abs(e.fc.path))

\* the paths that name an inode that was there before the build
HardLinks == {f \in DOMAIN fs.files \ DOMAIN InitFs.files : fs.files[f] \in DOMAIN InitFs.files}

\* C8 (link gating): for a configuration with a Link entry and no other
\* failing entry, new with LINKS_ALLOWED unset returns LinksNotAllowed, a
\* NotAllowedSettings error, and no hard link is ever created; with
\* LINKS_ALLOWED = "Y" new succeeds and every Link entry is a hard link to
\* its target.
C8_LinkGating ==
    \A b \in Builds :
        (Called(b) /\ LinkConfig(b)) =>
            /\ env = Unset =>
                 /\ HardLinks = {}
                 /\ pc[b] \notin {"building", "returning"} =>
                      /\ NewFailed(b)
                      /\ newRet[b].code = "LinksNotAllowed"
                      /\ classify(newRet[b].code) = "NotAllowedSettings"
            /\ env = "Y" =>
                 /\ ~NewFailed(b)
                 /\ pc[b] = "owned" =>
                      \A t \in Units(b) :
                          unit[b][t].kind = "link" =>
                              /\ unit[b][t].dst = unit[b][ParentOf(t)].dst \o ConfOf(b, t).name
                              /\ FsIsFile(fs, Abs(unit[b][t].dst))
                              /\ fs.files[Abs(unit[b][t].dst)] = InitFs.files[Abs(ConfOf(b, t).ref)]

\* with LINKS_ALLOWED = "Y", new has returned a sandbox with a hard link to
\* Cargo.toml in it
C8_Witness ==
    /\ pc[1] = "owned" /\ env = "Y" /\ LinkConfig(1)
    /\ HardLinks # {}
    /\ \A f \in HardLinks : fs.files[f] = Cwd \o CargoToml

Children(b, t) == {h \in Units(b) : Len(h) = Len(t) + 1 /\ ParentOf(h) = t}

CopiesOf(b, t) == {k \in Copiers(b) : k.owner = t}

SomeCancelled(b) ==
    \/ \E t \in Units(b) : unit[b][t].pc = "cancelled"
    \/ \E k \in Copiers(b) : copier[b][k].pc = "cancelled"

InCreateFile(b) == {t \in Units(b) : unit[b][t].pc \in {"create", "write"}}

InCopy(b) == {k \in Copiers(b) : copier[b][k].pc = "copy"}

DirOf(p) == SubSeq(p, 1, Len(p) - 1)

\* C13 (parent before children): a unit is spawned only by a Directory unit
\* whose create_dir has succeeded, with the directory that was created as its
\* parent path, and that directory is on disk from then on; the same holds
\* for the spawned copies and the nested calls of copy_dir; and no file or
\* directory is ever on disk without the directory it is in.
C13_ParentFirst ==
    /\ \A b \in Builds :
         /\ \A t \in Units(b) :
              Level(t) > 0 =>
                  LET p == unit[b][ParentOf(t)]
                  IN /\ p.kind = "directory"
                     /\ p.made
                     /\ p.pc \in {"join", "done", "cancelled"}
                     /\ unit[b][t].parent = p.dst
                     /\ Standing(b) => FsIsDir(fs, Abs(p.dst))
         /\ \A t \in Units(b) :
              \A n \in 1..Len(unit[b][t].frames) :
                  /\ unit[b][t].made
                  /\ Standing(b) => FsIsDir(fs, Abs(unit[b][t].frames[n].dst))
         /\ \A k \in Copiers(b) :
              /\ unit[b][k.owner].made
              /\ IsPrefix(unit[b][k.owner].dst, DirOf(k.dst))
              /\ Standing(b) => FsIsDir(fs, Abs(DirOf(k.dst)))
    /\ \A d \in fs.dirs : d # <<>> => DirOf(d) \in fs.dirs
    /\ \A f \in DOMAIN fs.files : DirOf(f) \in fs.dirs

\* a File unit two levels below the root has written its file while the
\* build is running
C13_Witness ==
    /\ pc[1] = "building"
    /\ <<1, 1, 1>> \in Units(1)
    /\ unit[1][<<1, 1, 1>>].kind = "file"
    /\ unit[1][<<1, 1, 1>>].pc = "done"
    /\ unit[1][<<1, 1, 1>>].res.ok
    /\ FsIsFile(fs, Abs(unit[1][<<1, 1>>].dst \o <<"a">>))
\* C14 (start point): for a configuration that parses, new with an empty
\* start_point builds its root directory in the current directory "."; new
\* with a start_point that is not empty and not a directory returns
\* ShouldStartFromDirectory without touching the file system; and no call of
\* new brings a start_point into being that was not there.
C14_StartPoint ==
    \A b \in Builds :
        Called(b) =>
            LET start_point == input[b].start_point
            IN /\ (Parsed(b).ok /\ start_point = <<>>) =>
                    /\ ~BadStart(Parsed(b).val) => <<1>> \in Units(b)
                    /\ <<1>> \in Units(b) => unit[b][<<1>>].parent = <<".">>
                    /\ RootMade(b) =>
                         Abs(RootDst(b)) \in {Cwd \o n : n \in Suffixed(Parsed(b).val[1].name)}
                    /\ pc[b] = "owned" =>
                         /\ tester[b].base_dir = RootDst(b)
                         /\ FsIsDir(fs, Abs(tester[b].base_dir))
               /\ (Parsed(b).ok /\ start_point # <<>> /\ ~FsIsDir(InitFs, Abs(start_point))) =>
                    /\ pc[b] = "failed"
                    /\ newRet[b] = Err("ShouldStartFromDirectory")
                    /\ Units(b) = {}
                    /\ fs = InitFs
               /\ ~FsIsDir(InitFs, Abs(start_point)) =>
                    /\ ~FsIsDir(fs, Abs(start_point))
                    /\ FsIsFile(InitFs, Abs(start_point)) <=> FsIsFile(fs, Abs(start_point))

\* new was called with a start_point that does not exist and has returned
C14_Witness ==
    /\ pc[1] = "failed"
    /\ input[1].start_point = <<"nodir">>
    /\ Parsed(1).ok /\ ~BadStart(Parsed(1).val)
    /\ newRet[1].code = "ShouldStartFromDirectory"
    /\ ~FsExists(fs, Abs(<<"nodir">>))
\* the bytes a File entry asks for: the data of InlineBytes, the UTF-8 bytes
\* of the text of InlineText, the bytes of the source of OriginalFile as they
\* were before the build, nothing for Empty
Wanted(fc) ==
    CASE fc.tag = "inline_bytes" -> fc.bytes
      [] fc.tag = "inline_text" -> IF fc.text = "hi" THEN <<104, 105>> ELSE <<>>
      [] fc.tag = "original_file" -> InitFs.data[InitFs.files[Abs(fc.path)]]
      [] fc.tag = "empty" -> <<>>

Below(f, c) ==
    {SubSeq(p, Len(c) + 1, Len(p)) : p \in {q \in f.dirs \cup DOMAIN f.files : IsPrefix(c, q)}}

\* C16 (clone fidelity): when new has returned a sandbox, for every
\* CloneDirectory entry a regular file is at a relative path under the
\* destination exactly if one is at that relative path under the source, with
\* the same bytes and as a file of its own, and a directory is at a relative
\* path under the destination exactly if one is there under the source.
C16_CloneFidelity ==
    \A b \in Builds :
        (pc[b] = "owned" /\ Built(b)) =>
            \A t \in Units(b) :
                unit[b][t].kind = "clone_directory" =>
                    LET src == Abs(ConfOf(b, t).ref)
                        dst == Abs(unit[b][t].dst)
                    IN /\ FsIsDir(fs, dst)
                       /\ \A rel \in (Below(fs, dst) \cup Below(InitFs, src)) \ {<<>>} :
                            /\ FsIsFile(fs, dst \o rel) <=> FsIsFile(InitFs, src \o rel)
                            /\ FsIsDir(fs, dst \o rel) <=> FsIsDir(InitFs, src \o rel)
                            /\ FsIsFile(fs, dst \o rel) =>
                                 /\ fs.files[dst \o rel] = dst \o rel
                                 /\ fs.data[dst \o rel] = InitFs.data[InitFs.files[src \o rel]]

\* new has returned a clone of src: mod.rs is in the subdirectory rfs of the
\* sandbox with the bytes of the source, and not at the top of the sandbox
C16_Witness ==
    /\ pc[1] = "owned" /\ Built(1)
    /\ unit[1][<<1>>].kind = "clone_directory"
    /\ FsIsFile(fs, Abs(tester[1].base_dir \o <<"rfs", "mod.rs">>))
    /\ FsRead(fs, tester[1].base_dir \o <<"rfs", "mod.rs">>) = <<3, 3>>
    /\ FsRead(fs, tester[1].base_dir \o <<"lib.rs">>) = <<2>>
    /\ ~FsExists(fs, Abs(tester[1].base_dir \o <<"mod.rs">>))
\* C17 (perform_fs_test): perform_fs_test calls the body once, with the
\* base_dir of the tester; it panics when the body returned Err and returns
\* when the body returned Ok; and nothing else calls the body.
C17_BodyOnce ==
    \A b \in Builds :
        /\ pc[b] \in {"idle", "start", "building", "returning", "failed", "owned"} =>
             bodyLog[b] = <<>>
        /\ pc[b] = "performed" => bodyLog[b] = <<BodyCall(tester[b].base_dir, TRUE)>>
        /\ pc[b] = "panicking" => bodyLog[b] = <<BodyCall(tester[b].base_dir, FALSE)>>
        /\ pc[b] = "aborted" => bodyLog[b] = <<BodyCall(tester[b].base_dir, FALSE)>>
        /\ pc[b] = "dropped" => bodyLog[b] \in {<<>>, <<BodyCall(tester[b].base_dir, TRUE)>>}

\* the body of a tester that new built has returned Err, and perform_fs_test
\* is panicking
C17_Witness ==
    /\ pc[1] = "panicking" /\ Built(1)
    /\ bodyLog[1] = <<BodyCall(RootDst(1), FALSE)>>
\* C18 (teardown on abnormal end): when the body has failed and the panic of
\* perform_fs_test has unwound the owner of the tester, base_dir does not
\* exist, and the drop has called remove_dir_all on it once.
C18_TeardownOnPanic ==
    \A b \in Builds :
        (pc[b] = "aborted" /\ Built(b)) =>
            /\ ~bodyLog[b][1].ok
            /\ ~FsExists(fs, Abs(tester[b].base_dir))
            /\ Len(rmLog[b]) = 1
            /\ rmLog[b][1].by = "drop"
            /\ rmLog[b][1].path = tester[b].base_dir

\* the body failed without touching the sandbox, and the drop that the panic
\* set off has removed it with what the build put into it
C18_Witness ==
    /\ pc[1] = "aborted" /\ Built(1)
    /\ rmLog[1] = <<Removal("drop", tester[1].base_dir, TRUE)>>
    /\ \E t \in Units(1) : unit[1][t].kind = "file" /\ unit[1][t].res.ok
    /\ fs = InitFs
\* new has failed after the root directory was created, from a start point
\* that resolves to "/" or to "."
FailedAtGuardedStart(b) ==
    /\ NewFailed(b) /\ RootMade(b)
    /\ Abs(StartDir(b)) \in {Abs(<<"/">>), Abs(<<".">>)}

\* C19 as claimed (rollback exception): when the build of the root fails and
\* start_point resolves to "/" or ".", the root directory that was created
\* is left in place and the message of the error says that the cleanup was
\* skipped.
C19_LeftInPlace ==
    \A b \in Builds :
        FailedAtGuardedStart(b) =>
            /\ FsIsDir(fs, Abs(RootDst(b)))
            /\ rmLog[b] = <<>>
            /\ Display(newRet[b]).says # "will be removed"

\* C19 as the code has it: the guard of the rollback compares the root path
\* that was created, not start_point, with "/" and "."; the root directory
\* is removed from these start points as from any other, and the message of
\* the error says that the created directory will be removed.
C19_RemovedAtGuardedStart ==
    \A b \in Builds :
        FailedAtGuardedStart(b) =>
            /\ ~FsExists(fs, Abs(RootDst(b)))
            /\ rmLog[b] = <<Removal("rollback", RootDst(b), TRUE)>>
            /\ newRet[b].sandbox_dir = RootDst(b)
            /\ Display(newRet[b]) = [dir |-> RootDst(b), says |-> "will be removed"]

\* new has failed from the start point "/" after it made /r_<code>, and has
\* removed it
C19_Witness ==
    /\ FailedAtGuardedStart(1)
    /\ input[1].start_point = <<"/">>
    /\ DirOf(Abs(RootDst(1))) = <<>>
    /\ rmLog[1] = <<Removal("rollback", RootDst(1), TRUE)>>
    /\ fs = InitFs
\* C20 (created-root annotation): the error that the Builder or the Cloner
\* returns at depth 0 has a sandbox_dir exactly if the root directory was
\* created by this call, and the sandbox_dir is then the path of that
\* directory; it has none when the creation of the root directory failed.
C20_Annotation ==
    \A b \in Builds :
        (<<1>> \in Units(b) /\ unit[b][<<1>>].pc = "done" /\ ~unit[b][<<1>>].res.ok) =>
            LET u == unit[b][<<1>>]
            IN /\ u.res.sandbox_dir # NoPath <=> u.made
               /\ u.res.sandbox_dir # NoPath =>
                    /\ u.res.sandbox_dir = u.dst
                    /\ pc[b] = "building" => FsIsDir(fs, Abs(u.dst))
\* C21 (rollback covers Multitasking failures): when new has returned a
\* Multitasking error after the root directory was created, the root
\* directory does not exist.
C21_MultitaskingRollback ==
    \A b \in Builds :
        (NewFailed(b) /\ RootMade(b) /\ classify(newRet[b].code) = "Multitasking") =>
            ~FsExists(fs, Abs(RootDst(b)))
\* C22 (original error propagated): when the build has failed, the error
\* that new returns is the error of the build, with its code and its
\* sandbox_dir, whatever the rollback met.
C22_OriginalError ==
    \A b \in Builds :
        (NewFailed(b) /\ buildRes[b] # Pending) =>
            newRet[b].code = buildRes[b].code
ValidationCategories == {"ConfigFormat", "NotAllowedSettings", "Syntax"}

\* C23 (validation errors need no rollback), as claimed: when new fails with
\* a ConfigFormat, NotAllowedSettings or Syntax error, the call has created
\* nothing and removed nothing.
C23_NoMutation ==
    \A b \in Builds :
        (NewFailed(b) /\ classify(newRet[b].code) \in ValidationCategories) =>
            /\ ~RootMade(b)
            /\ rmLog[b] = <<>>

\* C23, as the code has it: a ConfigFormat or Syntax error is returned before
\* the build starts, with the file system untouched; LinksNotAllowed is raised
\* by create_link inside the build, after the root directory was created, it
\* comes back annotated with the root and the rollback removes the root.
C23_ValidationPoint ==
    \A b \in Builds :
        NewFailed(b) =>
            /\ classify(newRet[b].code) \in {"ConfigFormat", "Syntax"} =>
                 /\ Units(b) = {} /\ Copiers(b) = {}
                 /\ buildRes[b] = Pending
                 /\ rmLog[b] = <<>>
                 /\ fs = InitFs
            /\ classify(newRet[b].code) = "NotAllowedSettings" =>
                 /\ RootMade(b)
                 /\ newRet[b].sandbox_dir = RootDst(b)
                 /\ rmLog[b] = <<Removal("rollback", RootDst(b), TRUE)>>
                 /\ ~FsExists(fs, Abs(RootDst(b)))

\* new has failed with LinksNotAllowed after the root directory was created,
\* and the rollback has removed it
C23_Witness ==
    /\ NewFailed(1) /\ RootMade(1)
    /\ newRet[1].code = "LinksNotAllowed"
    /\ rmLog[1] = <<Removal("rollback", RootDst(1), TRUE)>>
\* C24 (sibling name collision): a configuration in which two entries of one
\* directory have the same name never yields a sandbox, its build fails with
\* an Io error; and no two units that are inside create_file at the same time
\* have the same destination path.
C24_SiblingCollision ==
    \A b \in Builds :
        /\ (Called(b) /\ Parsed(b).ok /\ ~DistinctNames(Parsed(b).val)) =>
              /\ ~(pc[b] = "owned" /\ Built(b))
              /\ (pc[b] = "failed" /\ RootMade(b)) => newRet[b].code = "Io"
        /\ \A t1, t2 \in InCreateFile(b) :
              (t1 # t2 /\ unit[b][t1].pc = "write" /\ unit[b][t2].pc = "write") =>
                  unit[b][t1].dst # unit[b][t2].dst
\* C28 (empty configuration text is rejected): parse_config of the empty text
\* is the EmptyConfig error, of category ConfigFormat; new of the empty text
\* returns it from every start point, a directory or not, and nothing is
\* created or removed.
C28_EmptyRejected ==
    \A b \in Builds :
        (Called(b) /\ input[b].config_str.first = "") =>
            /\ parse_config(input[b].config_str) = Err("EmptyConfig")
            /\ pc[b] = "failed"
            /\ newRet[b] = Err("EmptyConfig")
            /\ classify(newRet[b].code) = "ConfigFormat"
            /\ Units(b) = {} /\ Copiers(b) = {}
            /\ rmLog[b] = <<>>
            /\ fs = InitFs

\* new of the empty text from a start point that is not a directory has
\* returned EmptyConfig
C28_Witness ==
    /\ NewFailed(1)
    /\ input[1].config_str.first = ""
    /\ input[1].start_point = <<"nodir">>
    /\ newRet[1].code = "EmptyConfig"
\* the copies that hold the two files copy_dir has opened for them
OpenInCopy(b) == {k \in Copiers(b) : copier[b][k].pc \in {"acquire", "copy"}}

\* C29 (open-descriptor cap): during a build, the units that hold open files,
\* the File units inside create_file and the copies of the Cloner from
\* File::open on, are as many as the permits that are taken, so they are at
\* most SEMAPHORE_LIMIT: files are open only under a permit.
C29_OpenFilesCap ==
    \A b \in Builds :
        pc[b] = "building" =>
            /\ Cardinality(InCreateFile(b)) + Cardinality(OpenInCopy(b))
                 = SEMAPHORE_LIMIT - permits[b]
            /\ Cardinality(InCreateFile(b)) + Cardinality(OpenInCopy(b)) <= SEMAPHORE_LIMIT
\* the units of the entries that are not File entries
Ungated(b) == {t \in Units(b) : unit[b][t].kind # "file"}

\* a Directory, CloneDirectory or Link unit is never at a step of the permit,
\* and its next step is enabled whatever the permits are
NeverWaitsForPermit ==
    \A b \in Builds : \A t \in Ungated(b) :
        /\ unit[b][t].pc \notin {"acquire", "create", "write"}
        /\ Running(b, t) =>
             /\ unit[b][t].pc = "create_dir" => ENABLED CreateDir(b, t)
             /\ unit[b][t].pc = "spawn" => ENABLED SpawnContent(b, t)
             /\ unit[b][t].pc = "clone_create" => ENABLED CloneCreate(b, t)
             /\ unit[b][t].pc = "link" => ENABLED CreateLink(b, t)

\* a step that changes the permits of a build is a step of the thread that
\* called new (Semaphore::new, and the drop of the runtime with the tasks that
\* are left), or a step of a File unit or of a spawned copy, and then it
\* changes no other unit
PermitsMoveWithFiles ==
    \A b \in Builds :
        permits'[b] # permits[b] =>
            \/ pc'[b] # pc[b]
            \/ /\ \A t \in Ungated(b) : t \in DOMAIN unit'[b] /\ unit'[b][t] = unit[b][t]
               /\ \/ \E t \in Units(b) \ Ungated(b) : unit'[b][t] # unit[b][t]
                  \/ \E k \in Copiers(b) : copier'[b][k] # copier[b][k]

Converted == conv.io # None

\* C26 (conversion into io::Error is total): the conversion of an error of
\* code Io gives the io::Error inside it, with its kind; the conversion of an
\* error of any other code gives an io::Error of kind InvalidData; and no
\* conversion panics.
C26_ConversionTotal ==
    Converted =>
        /\ ~conv.io[1].panicked
        /\ conv.error.code = "Io" => conv.io[1].kind = conv.error.kind
        /\ conv.error.code # "Io" => conv.io[1].kind = "InvalidData"

\* the category the error taxonomy gives to each code
Taxonomy ==
    [c \in ErrorCodes |->
       CASE c \in {"EmptyConfig", "ShouldStartFromDirectory"} -> "ConfigFormat"
         [] c = "LinksNotAllowed" -> "NotAllowedSettings"
         [] c \in {"JsonSyntax", "YamlSyntax"} -> "Syntax"
         [] c \in {"Io", "WalkDir"} -> "Io"
         [] c \in {"AcquireError", "JoinError"} -> "Multitasking"]

\* the is_ method of a category
IsMethod ==
    [c \in Categories |->
       CASE c = "ConfigFormat" -> "is_config_format"
         [] c = "NotAllowedSettings" -> "is_not_allowed_settings"
         [] c = "Syntax" -> "is_syntax"
         [] c = "Io" -> "is_io"
         [] c = "Multitasking" -> "is_multitasking"]

\* C27 (error taxonomy): classify gives every error the category of its code,
\* whatever its sandbox_dir: EmptyConfig and ShouldStartFromDirectory are
\* ConfigFormat, LinksNotAllowed is NotAllowedSettings, JsonSyntax and
\* YamlSyntax are Syntax, Io and WalkDir are Io, AcquireError and JoinError
\* are Multitasking; and exactly one of the five is_ methods returns true, the
\* one of that category.
C27_Taxonomy ==
    /\ conv.category # None =>
         /\ conv.category[1] \in Categories
         /\ conv.category[1] = Taxonomy[conv.error.code]
    /\ conv.is # None =>
         /\ Cardinality(conv.is[1]) = 1
         /\ conv.is[1] = {IsMethod[Taxonomy[conv.error.code]]}

\* a WalkDir error with a sandbox_dir was classified as Io, and is_io alone
\* is true for it
C27_Witness ==
    /\ conv.error.code = "WalkDir"
    /\ conv.error.sandbox_dir # NoPath
    /\ conv.category = Some("Io")
    /\ conv.is = Some({"is_io"})
\* the thread of the tester is inside new
InNew(b) == pc[b] \in {"building", "returning"}

\* C25 (termination): a call of new that has started its build returns, with
\* Ok or with an error, and no tester stays inside new; so does the build of
\* a CloneDirectory whose source holds the destination.
C25_Termination ==
    (\E b \in Builds : InNew(b))
        ~> (\A b \in Builds : ~InNew(b) /\ (Called(b) => newRet[b] # Pending))
\* the clone of a start point into itself went down into its own destination
\* until the path was refused, and new has returned the Io error after the
\* rollback
C25_Witness ==
    /\ NewFailed(1)
    /\ input[1] \in SelfClones
    /\ newRet[1].code = "Io"
    /\ Len(unit[1][<<1>>].frames) >= 3
    /\ rmLog[1] = <<Removal("rollback", RootDst(1), TRUE)>>
\* the Link units of a tester
LinkUnits(b) == {t \in Units(b) : unit[b][t].kind = "link"}

\* a Link unit that has returned was refused
Refused(u) == u.res.code = "LinksNotAllowed"

\* every Link unit that has returned was refused if and only if the tester's
\* Permissions do not allow links
OneDecision ==
    \A b \in Builds : \A t \in LinkUnits(b) :
        unit[b][t].pc = "done" => (Refused(unit[b][t]) <=> ~links_allowed[b])

\* new reads the environment in its first step and Permissions never changes
\* afterwards; a Link unit decides by Permissions, whatever the environment
\* is at that step
GateReadOnce ==
    \A b \in Builds :
        /\ (pc[b] = "start" /\ pc'[b] \in {"building", "failed"}) =>
               links_allowed'[b] = LinksAllowed(env)
        /\ pc[b] \notin {"start", "idle"} => links_allowed'[b] = links_allowed[b]
        /\ \A t \in LinkUnits(b) :
             (unit[b][t].pc = "link" /\ unit'[b][t].pc = "done") =>
                 (Refused(unit'[b][t]) <=> ~links_allowed[b])

\* C31 (permit gate read once): LINKS_ALLOWED is read once, at the start of
\* new, into Permissions, which stays as it is for the whole build: every
\* Link entry of the build gets the same decision, the one of the value read
\* at the start, even when the environment variable changes while the build
\* runs.
C31_GateReadOnce == []OneDecision /\ [][GateReadOnce]_vars

\* one Link unit has got its decision, another one has not run yet, and the
\* environment now says the opposite of what new has read
C31_Witness ==
    /\ pc[1] = "building"
    /\ LinksAllowed(env) # links_allowed[1]
    /\ \E t1 \in LinkUnits(1) : \E t2 \in LinkUnits(1) :
         /\ unit[1][t1].pc = "done"
         /\ Refused(unit[1][t1]) <=> ~links_allowed[1]
         /\ unit[1][t2].pc = "link"
\* the entries at and below a directory that are neither files nor
\* directories, as paths relative to it
SpecialBelow(f, c) == {SubSeq(o, Len(c) + 1, Len(o)) : o \in {q \in f.others : IsPrefix(c, q)}}

CloneUnits(b) == {t \in Units(b) : unit[b][t].kind = "clone_directory"}

\* C32 (the Cloner skips what it cannot represent): an entry of a clone
\* source that is neither a regular file nor a directory gives no object in
\* the destination and no error: the clone returns Ok, new returns Ok, nothing
\* is at the path of the entry in the destination, and every file and
\* directory of the source is copied.
C32_SkipsSpecialEntries ==
    \A b \in Builds :
        /\ \A t \in CloneUnits(b) : unit[b][t].pc = "done" => unit[b][t].res.ok
        /\ (Called(b) /\ newRet[b] # Pending) => newRet[b].ok
        /\ (pc[b] = "owned" /\ Built(b)) =>
             \A t \in CloneUnits(b) :
                 LET src == Abs(ConfOf(b, t).ref)
                     dst == Abs(unit[b][t].dst)
                 IN /\ unit[b][t].pc = "done"
                    /\ \A rel \in SpecialBelow(SpecialFs, src) : ~FsExists(fs, dst \o rel)
                    /\ \A rel \in Below(SpecialFs, src) :
                         /\ FsIsDir(SpecialFs, src \o rel) => FsIsDir(fs, dst \o rel)
                         /\ FsIsFile(SpecialFs, src \o rel) =>
                              /\ FsIsFile(fs, dst \o rel)
                              /\ fs.data[fs.files[dst \o rel]]
                                   = SpecialFs.data[SpecialFs.files[src \o rel]]

\* new has returned a clone of src, where ln is a symbolic link and rfs/sock
\* a socket: lib.rs and rfs/mod.rs are in the sandbox, ln and rfs/sock are not
C32_Witness ==
    /\ pc[1] = "owned" /\ Built(1)
    /\ unit[1][<<1>>].kind = "clone_directory"
    /\ ConfOf(1, <<1>>).ref = <<"src">>
    /\ Cwd \o <<"src", "ln">> \in fs.others
    /\ Cwd \o <<"src", "rfs", "sock">> \in fs.others
    /\ FsRead(fs, tester[1].base_dir \o <<"lib.rs">>) = <<2>>
    /\ FsRead(fs, tester[1].base_dir \o <<"rfs", "mod.rs">>) = <<3, 3>>
    /\ ~FsExists(fs, Abs(tester[1].base_dir \o <<"ln">>))
    /\ ~FsExists(fs, Abs(tester[1].base_dir \o <<"rfs", "sock">>))
\* every entry of the configuration of a tester has a unit
AllSpawned(b) ==
    /\ <<1>> \in Units(b)
    /\ \A t \in Units(b) :
         \A i \in 1..Len(ConfOf(b, t).content) : Append(t, i) \in Units(b)

\* the path of the entry of a unit
PathOf(b, t) ==
    IF IsDirUnit(b, t) THEN Abs(unit[b][t].dst)
    ELSE Abs(unit[b][ParentOf(t)].dst \o ConfOf(b, t).name)

\* what the entry of a unit asks for is on disk
FullyCreated(b, t) ==
    LET conf == ConfOf(b, t)
        path == PathOf(b, t)
    IN CASE conf.kind = "directory" -> FsIsDir(fs, path)
         [] conf.kind = "file" ->
              FsIsFile(fs, path) /\ fs.data[fs.files[path]] = Wanted(conf.fc)
         [] conf.kind = "link" ->
              FsIsFile(fs, path) /\ fs.files[path] = Abs(conf.ref)
         [] conf.kind = "clone_directory" ->
              /\ FsIsDir(fs, path)
              /\ \A rel \in Below(InitFs, Abs(conf.ref)) :
                   /\ FsIsDir(InitFs, Abs(conf.ref) \o rel) => FsIsDir(fs, path \o rel)
                   /\ FsIsFile(InitFs, Abs(conf.ref) \o rel) =>
                        /\ FsIsFile(fs, path \o rel)
                        /\ fs.data[fs.files[path \o rel]]
                             = InitFs.data[InitFs.files[Abs(conf.ref) \o rel]]

\* new has just returned Ok to its caller
JustReturned(b) == pc[b] = "owned" /\ Built(b)

\* the first three parts of the postcondition of new: base_dir, the root
\* directory and config
ReturnedSandbox(b) ==
    /\ tester[b].base_dir = RootDst(b)
    /\ tester[b].base_dir \in {Join(StartDir(b), n) : n \in Suffixed(Parsed(b).val[1].name)}
    /\ FsIsDir(fs, Abs(tester[b].base_dir))
    /\ Parsed(b).ok /\ tester[b].config = Parsed(b).val

\* C33 (success postcondition): when new returns Ok, base_dir is the root
\* path the build generated, start_point joined with name_<suffix>; that path
\* is a directory; every entry of the configuration is fully created under
\* it; and config is the parsed configuration.
C33_SuccessPostcondition ==
    \A b \in Builds :
        JustReturned(b) =>
            /\ ReturnedSandbox(b)
            /\ AllSpawned(b)
            /\ \A t \in Units(b) : unit[b][t].pc = "done" /\ FullyCreated(b, t)

\* the postcondition for configurations in which no two entries of a
\* directory have the same name
C33_ForDistinctNames ==
    \A b \in Builds :
        (JustReturned(b) /\ DistinctNames(tester[b].config)) =>
            /\ ReturnedSandbox(b)
            /\ AllSpawned(b)
            /\ \A t \in Units(b) : unit[b][t].pc = "done" /\ FullyCreated(b, t)
\* the calls of remove_dir_all that Drop has made for a tester
DropRemovals(b) == SelectSeq(rmLog[b], LAMBDA r : r.by = "drop")

\* the body of the tester has returned Err
BodyFailed(b) == bodyLog[b] # <<>> /\ ~bodyLog[b][Len(bodyLog[b])].ok

\* C34 (teardown never escalates): when remove_dir_all of base_dir fails in
\* Drop, for example because the test body has removed the directory, the
\* failure is written to stderr and nothing else happens: Drop makes one call
\* of remove_dir_all and no second one, it does not run again, and no tester
\* is ever unwinding from a panic unless its test body has failed.
C34_TeardownNeverEscalates ==
    \A b \in Builds :
        /\ Len(DropRemovals(b)) <= 1
        /\ pc[b] \in {"panicking", "aborted"} => BodyFailed(b)
        /\ Gone(b) =>
             /\ ~ENABLED Drop(b)
             /\ (DropRemovals(b) # <<>> /\ ~DropRemovals(b)[1].ok) =>
                    stderr[b] = <<FailedToDelete(tester[b].base_dir)>>
             /\ (DropRemovals(b) # <<>> /\ DropRemovals(b)[1].ok) => stderr[b] = <<>>

\* the body has removed the sandbox and returned Ok; the remove_dir_all of
\* Drop has failed, the failure is on stderr, and the tester is dropped
C34_Witness ==
    /\ pc[1] = "dropped" /\ Built(1)
    /\ bodyLog[1] = <<BodyCall(tester[1].base_dir, TRUE)>>
    /\ rmLog[1] = <<Removal("drop", tester[1].base_dir, FALSE)>>
    /\ stderr[1] = <<FailedToDelete(tester[1].base_dir)>>
\* the characters that start a JSON text
JsonStart == {"{", "["}

\* C35 (format selection): parse_config gives the text to the JSON parser
\* when its first character that is not whitespace is '{' or '[', and to the
\* YAML parser otherwise: a syntax error of a text whose first such character
\* is '{' or '[' is a JsonSyntax error also when spaces or a line feed come
\* before it, and a syntax error of any other text is a YamlSyntax error.
C35_FormatSelection ==
    \A b \in Builds :
        (Called(b) /\ newRet[b].code \in {"JsonSyntax", "YamlSyntax"}) =>
            (newRet[b].code = "JsonSyntax" <=> input[b].config_str.after \in JsonStart)

\* the same for the first character of the text: this is what parse_config
\* looks at
C35_FirstCharacter ==
    \A b \in Builds :
        (Called(b) /\ newRet[b].code \in {"JsonSyntax", "YamlSyntax"}) =>
            (newRet[b].code = "JsonSyntax" <=> input[b].config_str.first \in JsonStart)
\* a unit has returned an error
Failed(b, t) == unit[b][t].pc = "done" /\ ~unit[b][t].res.ok

\* an error with the root directory of the build written into it
AtRoot(b, res) == [res EXCEPT !.sandbox_dir = RootDst(b)]

\* the error of a Directory unit below the root is the error of one of its
\* children as the child returned it, or the error of its own create_dir, and
\* no unit below the root writes a sandbox_dir
PassedUnchanged(b) ==
    \A t \in Units(b) :
        (Level(t) >= 1 /\ Failed(b, t)) =>
            /\ unit[b][t].res.sandbox_dir = NoPath
            /\ (unit[b][t].kind = "directory" /\ unit[b][t].made) =>
                   \E h \in Children(b, t) : Failed(b, h) /\ unit[b][t].res = unit[b][h].res

\* the error of a root Directory that was made is the error of one of its
\* children with the root path in it
AnnotatedAtRoot(b) ==
    (Failed(b, <<1>>) /\ unit[b][<<1>>].kind = "directory" /\ RootMade(b)) =>
        \E h \in Children(b, <<1>>) :
            Failed(b, h) /\ unit[b][<<1>>].res = AtRoot(b, unit[b][h].res)

\* C36 (a nested failure reaches the root): the error of an entry at depth 1
\* or more goes up through every Directory unit above it as it is, without a
\* sandbox_dir; the depth-0 call writes the root path into it; new returns
\* that error after it has removed the root directory; and new never returns
\* Ok when an entry has failed.
C36_NestedFailureReachesRoot ==
    \A b \in Builds :
        /\ <<1>> \in Units(b) => PassedUnchanged(b) /\ AnnotatedAtRoot(b)
        /\ (NewFailed(b) /\ RootMade(b)) =>
               /\ newRet[b] = unit[b][<<1>>].res
               /\ newRet[b].sandbox_dir = RootDst(b)
               /\ ~FsExists(fs, Abs(RootDst(b)))
               /\ rmLog[b] = <<Removal("rollback", RootDst(b), TRUE)>>
        /\ (Called(b) /\ pc[b] \notin {"building", "returning"}
              /\ \E t \in Units(b) : Failed(b, t)) => NewFailed(b)

\* an entry at depth 2 has failed; the Directory above it has returned the
\* same error; the root has returned it with the root path; new has returned
\* it and the root directory is gone
C36_Witness ==
    /\ NewFailed(1) /\ RootMade(1)
    /\ <<1, 1, 1>> \in Units(1)
    /\ Failed(1, <<1, 1, 1>>)
    /\ unit[1][<<1, 1>>].res = unit[1][<<1, 1, 1>>].res
    /\ unit[1][<<1>>].res = AtRoot(1, unit[1][<<1, 1, 1>>].res)
    /\ newRet[1] = unit[1][<<1>>].res
    /\ ~FsExists(fs, Abs(RootDst(1)))
\* the position of a unit in the content of its directory
IndexOf(t) == t[Len(t)]

FailedChildren(b, t) == {h \in Children(b, t) : Failed(b, h)}

\* the failed child that comes first in the content of the directory
FirstFailed(b, t) ==
    CHOOSE h \in FailedChildren(b, t) :
        \A g \in FailedChildren(b, t) : IndexOf(h) <= IndexOf(g)

\* C37 (which failure is reported): a Directory unit that fails after its
\* directory was made returns the error of the failed child that comes first
\* in the configured content, whichever child has failed first in time: every
\* child before that one has finished with Ok, and the errors of the children
\* after it are not returned, neither by the unit nor by new.
C37_FirstInJoinOrder ==
    \A b \in Builds :
        /\ \A t \in Units(b) :
             (unit[b][t].kind = "directory" /\ Failed(b, t) /\ unit[b][t].made) =>
                 /\ FailedChildren(b, t) # {}
                 /\ unit[b][t].res
                      = Annotate(unit[b][FirstFailed(b, t)].res, Level(t), unit[b][t].dst)
                 /\ \A g \in Children(b, t) :
                      IndexOf(g) < IndexOf(FirstFailed(b, t)) =>
                          unit[b][g].pc = "done" /\ unit[b][g].res.ok
        /\ (NewFailed(b) /\ RootMade(b) /\ unit[b][<<1>>].kind = "directory") =>
               newRet[b] = AtRoot(b, unit[b][FirstFailed(b, <<1>>)].res)

\* two children of the root have failed with different errors, and new has
\* returned the error of the first of them
C37_Witness ==
    /\ NewFailed(1) /\ RootMade(1)
    /\ {<<1, 1>>, <<1, 2>>} \subseteq FailedChildren(1, <<1>>)
    /\ unit[1][<<1, 1>>].res.code # unit[1][<<1, 2>>].res.code
    /\ newRet[1].code = unit[1][<<1, 1>>].res.code
\* every unit and every copy of a build has returned or was dropped
AllStopped(b) ==
    /\ \A t \in Units(b) : unit[b][t].pc \in {"done", "cancelled", "panicked"}
    /\ \A k \in Copiers(b) : copier[b][k].pc \in {"done", "cancelled", "panicked"}

\* nothing is at or below a path
NothingAt(f, c) == \A p \in f.dirs \cup DOMAIN f.files \cup f.others : ~IsPrefix(c, p)

\* block_on has returned and the runtime is dropped: every unit has stopped
\* before the rollback makes its call, and what the rollback has removed is
\* not there when new has returned
QuietAtReturn ==
    \A b \in Builds :
        /\ (Called(b) /\ pc[b] # "building") => AllStopped(b)
        /\ pc[b] = "returning" => rmLog[b] = <<>>
        /\ (NewFailed(b) /\ rmLog[b] # <<>>) =>
               /\ rmLog[b] = <<Removal("rollback", RootDst(b), TRUE)>>
               /\ NothingAt(fs, Abs(RootDst(b)))

\* outside block_on no unit of the build takes a step, and the file system is
\* changed only by a step of a calling thread: the rollback, the test body or
\* Drop
OnlyThreadsAfterReturn ==
    /\ \A b \in Builds :
         pc[b] \notin {"start", "building"} =>
             /\ unit'[b] = unit[b] /\ copier'[b] = copier[b] /\ permits'[b] = permits[b]
    /\ (fs' # fs /\ \A b \in Builds : pc[b] # "building") =>
           \E b \in Builds : pc'[b] # pc[b] /\ pc[b] \in {"returning", "owned", "performed", "panicking"}

\* C38 (quiescence at return): once new has returned, Ok or Err, no unit of
\* its build does anything to the file system; on the failure path the
\* remove_dir_all of the rollback is called only after every unit has
\* stopped, and nothing is created under the root after it was removed.
C38_QuiescenceAtReturn == []QuietAtReturn /\ [][OnlyThreadsAfterReturn]_vars

\* new has returned an error and has removed the root, and a File unit of the
\* build was dropped before its File::create
C38_Witness ==
    /\ NewFailed(1) /\ RootMade(1)
    /\ rmLog[1] = <<Removal("rollback", RootDst(1), TRUE)>>
    /\ \E t \in Units(1) :
         /\ unit[1][t].kind = "file"
         /\ unit[1][t].pc = "cancelled"
         /\ unit[1][t].dst = <<>>
    /\ NothingAt(fs, Abs(RootDst(1)))
\* the File units and spawned copies of a build that wait for a permit
WaitingForPermit(b) ==
    {t \in Units(b) : unit[b][t].pc = "acquire"}
    \cup {k \in Copiers(b) : copier[b][k].pc = "acquire"}

\* the permits that are out are one for each File unit inside create_file
\* and each copy inside io::copy; who holds a permit waits for nothing: its
\* next step can be taken; and when the build has ended, every permit is
\* back
PermitsAccounted ==
    \A b \in Builds :
        /\ pc[b] = "building" =>
             /\ permits[b] + Cardinality(InCreateFile(b)) + Cardinality(InCopy(b))
                  = SEMAPHORE_LIMIT
             /\ \A t \in InCreateFile(b) : ENABLED (CreateFile(b, t) \/ WriteFile(b, t))
             /\ \A k \in InCopy(b) : ENABLED CopyBytes(b, k)
             /\ AllStopped(b) => permits[b] = SEMAPHORE_LIMIT
        /\ (pc[b] \notin {"start", "building"} /\ <<1>> \in Units(b)) =>
             /\ permits[b] = SEMAPHORE_LIMIT
             /\ InCreateFile(b) = {} /\ InCopy(b) = {}

\* a step of a unit takes one permit, when the unit goes from waiting to its
\* file operation, or gives one back, when its file operation ends with Ok or
\* with an error; no step moves more than one permit
OnePermitEach ==
    \A b \in Builds :
        (pc'[b] = pc[b] /\ pc[b] = "building") =>
            /\ permits'[b] - permits[b] \in {-1, 0, 1}
            /\ \A t \in Units(b) :
                 /\ (t \notin InCreateFile(b) /\ unit'[b][t].pc \in {"create", "write"}) =>
                        unit[b][t].pc = "acquire" /\ permits'[b] = permits[b] - 1
                 /\ (t \in InCreateFile(b) /\ unit'[b][t].pc \notin {"create", "write"}) =>
                        unit'[b][t].pc = "done" /\ permits'[b] = permits[b] + 1
            /\ \A k \in Copiers(b) :
                 /\ (k \notin InCopy(b) /\ copier'[b][k].pc = "copy") =>
                        copier[b][k].pc = "acquire" /\ permits'[b] = permits[b] - 1
                 /\ (k \in InCopy(b) /\ copier'[b][k].pc # "copy") =>
                        copier'[b][k].pc = "done" /\ permits'[b] = permits[b] + 1

\* every build ends, and then nobody waits for a permit or holds one
BuildsEndWithAllPermits ==
    (\E b \in Builds : pc[b] = "building")
        ~> (\A b \in Builds :
              /\ pc[b] # "building"
              /\ <<1>> \in Units(b) => permits[b] = SEMAPHORE_LIMIT)

Shape(f, c) ==
    {[path |-> SubSeq(p, Len(c) + 1, Len(p)),
      what |-> IF p \in f.dirs THEN <<"dir">>
               ELSE IF f.files[p] = p THEN <<"file", f.data[p]>>
               ELSE <<"link", f.files[p]>>] :
       p \in {q \in f.dirs \cup DOMAIN f.files : IsPrefix(c, q) /\ q # c}}

\* what a content asks for, as the Shape of the directory it is built in
RECURSIVE Expected(_)
Expected(content) ==
    UNION {LET e == content[i]
               inside == CASE e.kind = "directory" -> Expected(e.content)
                           [] e.kind = "clone_directory" -> Shape(InitFs, Abs(e.ref))
                           [] OTHER -> {}
               what == CASE e.kind \in {"directory", "clone_directory"} -> <<"dir">>
                         [] e.kind = "file" -> <<"file", Wanted(e.fc)>>
                         [] e.kind = "link" -> <<"link", Abs(e.ref)>>
           IN {[path |-> e.name, what |-> what]}
              \cup {[x EXCEPT !.path = e.name \o @] : x \in inside} :
           i \in 1..Len(content)}

\* a call of new in which nothing can fail: the text parses into one root
\* directory, the start point is a directory, all names are single and
\* distinct among siblings, links are allowed if there is a Link, and every
\* source that is named exists
Sound(b) ==
    /\ Parsed(b).ok /\ ~BadStart(Parsed(b).val)
    /\ FsIsDir(InitFs, Abs(StartDir(b)))
    /\ DistinctNames(Parsed(b).val)
    /\ \A e \in AllEntries(Parsed(b).val) :
         /\ Len(e.name) = 1
         /\ e.kind = "link" => LinksAllowed(input[b].env) /\ FsIsFile(InitFs, Abs(e.ref))
         /\ e.fc.tag = "original_file" => FsIsFile(InitFs, Abs(e.fc.path))
         /\ e.kind = "clone_directory" => FsIsDir(InitFs, Abs(e.ref))

\* the Shape of the sandbox that the configuration of a tester asks for
ExpectedSandbox(b) ==
    LET root == Parsed(b).val[1]
    IN IF root.kind = "directory" THEN Expected(root.content)
       ELSE Shape(InitFs, Abs(root.ref))

\* C40 (schedule independence): for a configuration in which the names of
\* siblings are distinct and no operation fails, every interleaving of the
\* units ends in the same result and the same tree: new returns Ok with the
\* root start_point/name_<suffix>, the paths below the root and the bytes of
\* the files are those the configuration asks for, no more and no less, and
\* nothing outside the root has changed.
C40_ScheduleIndependence ==
    \A b \in Builds :
        (Called(b) /\ Sound(b) /\ pc[b] \notin {"building", "returning"}) =>
            /\ newRet[b].ok
            /\ newRet[b].val \in {Join(StartDir(b), n) : n \in Suffixed(Parsed(b).val[1].name)}
            /\ JustReturned(b) =>
                 /\ Shape(fs, Abs(tester[b].base_dir)) = ExpectedSandbox(b)
                 /\ \A p \in InitFs.dirs : p \in fs.dirs
                 /\ \A p \in DOMAIN InitFs.files :
                      FsIsFile(fs, p) /\ fs.files[p] = p /\ fs.data[p] = InitFs.data[p]
                 /\ \A p \in fs.dirs \cup DOMAIN fs.files :
                      IsPrefix(Abs(tester[b].base_dir), p)
                        \/ p \in InitFs.dirs \cup DOMAIN InitFs.files

\* new has returned a sandbox with a directory d that holds a hard link and,
\* next to d, a file a: two units that ran side by side, and a third below
\* one of them
C40_Witness ==
    /\ JustReturned(1) /\ Sound(1)
    /\ Shape(fs, Abs(tester[1].base_dir))
         = {[path |-> <<"d">>, what |-> <<"dir">>],
            [path |-> <<"d", "l">>, what |-> <<"link", Cwd \o CargoToml>>],
            [path |-> <<"a">>, what |-> <<"file", <<104, 105>>>>]}
====
